---- MODULE Spec2Model ----
(***************************************************************************)
(* MCPClient (plugins/plugin_utils/mcp.py) driving a Stdio transport whose *)
(* child process is an MCP server speaking newline-delimited JSON-RPC.     *)
(*                                                                         *)
(* A client operation runs from its call to the point where Stdio.request  *)
(* blocks in select() (pc = "waiting"); the server process runs            *)
(* concurrently; StdoutRead / StdoutTimeout resume the operation and run   *)
(* it to its return or to its next blocking request.                       *)
(*                                                                         *)
(* Spec / LiveSpec: MCPClient over Stdio. StdioSpec: a bare Stdio          *)
(* transport against the counting server of the unit tests. HttpSpec: the  *)
(* StreamableHTTP transport against an arbitrary endpoint.                 *)
(***************************************************************************)
EXTENDS Integers, Sequences, FiniteSets, TLC

\* Bound on the number of JSON-RPC requests one client builds.
MaxRequests == 3

\* Stdio._stdout_read(wait_timeout=5)
DefaultWaitTimeout == 5

\* Bound on the length of the "required" list of the schemas validated.
MaxRequired == 2

\* Bound on the JSON-RPC requests one connection plugin object sends.
MaxPluginRequests == 4

\* Connection._send_mcp_request: self.get_option('mcp_timeout') or 30
DefaultMcpTimeout == 30

\* Bound on the Stdio.notify calls a driver of a bare transport makes per connect.
MaxNotifies == 5

\* Bound on the Stdio.request calls a driver of a bare transport makes per connect.
MaxStdioRequests == 3

None == "None"

VARIABLES
    connected,      \* MCPClient._connected
    server_info,    \* MCPClient._server_info (None or the captured result)
    tools_cache,    \* MCPClient._tools_cache (None or the cached result)
    request_id,     \* MCPClient._request_id
    process,        \* Stdio._process: None, or a handle whose process is "alive" / "dead"
    stdin,          \* lines written to the child's stdin and not yet read by it
    stdout,         \* lines written by the child to its stdout and not yet read
    pc,             \* "idle": no client call in progress; "waiting": blocked in select()
    op,             \* the client call in progress, or the last one that returned
                    \* (ret: what it returned; of initialize, the result it captured)
    built,          \* ids of the requests built by _build_request, in order
    lastRead,       \* <<id of the request, id the returned response answers>> of
                    \* the last read of the current call, <<0, 0>> before it
    fetched,        \* a tools/list result was cached and close() was not called since
    closedOnce,     \* close() has been called on this client
    spawns,         \* transport.connect() calls that succeeded since the last
                    \* close() of this client (or since its construction)
    notifications,  \* the counting test server's count of "notify" messages
    notified,       \* Stdio.notify calls that returned since Stdio.connect
    requests,       \* Stdio.request calls made since Stdio.connect
    session_id,     \* StreamableHTTP._session_id
    post,           \* the last StreamableHTTP call: what was sent, answered, returned
    accepted,       \* the session token last received with the expected status
    carried,        \* the session token last received with any status
    validation,     \* the last schema validation: schema, arguments, outcome
    plugin          \* the connection plugin: _connected, _mcp_initialized,
                    \* _tools_cache, _request_id_counter; the process's SIGALRM
                    \* handler, the handler saved by the read in progress and
                    \* the pending alarm; the methods written to the child
                    \* since it was spawned

\* The state of a driver of a bare Stdio transport and of its counting server.
counterVars == <<notifications, notified, requests>>

\* The state of a StreamableHTTP transport and of its observer.
httpVars == <<session_id, post, accepted, carried>>

\* The state of the connection plugin (its process and pipes aside).
pluginVars == <<plugin>>

\* The state of an observer of the schema validator.
validatorVars == <<validation>>

\* The state of MCPClient.
clientVars == <<connected, server_info, tools_cache, request_id, built, lastRead,
                fetched, closedOnce, spawns>>

vars == <<connected, server_info, tools_cache, request_id, process, stdin, stdout,
          pc, op, built, lastRead, fetched, closedOnce,
          notifications, notified, requests, session_id, post, accepted, carried,
          validation, plugin, spawns>>

(***************************************************************************)
(* Data: the server's tool catalog and the arguments callers pass.         *)
(***************************************************************************)

\* An inputSchema {type, properties, required}: the one the server's catalog
\* declares for its tool unless another is drawn.
T1Schema ==
    [type |-> "object",
     properties |-> [a |-> "string", b |-> "integer"],
     required |-> <<"a">>]

\* The tool definition {name, inputSchema} of the server's catalog;
\* validation.schema is the inputSchema the server declares.
ToolT1 ==
    [name |-> "t1", inputSchema |-> validation.schema]

\* The "tools" list of a cached tools/list result (get_tool: tools_response.get("tools", [])).
\* Only the catalog result carries a "tools" key.
ToolsOf(cache) ==
    IF cache = "catalog" THEN <<ToolT1>> ELSE <<>>

\* The orders in which a caller can pass the keyword arguments kwargs: **kwargs
\* keeps the order of the call.
Orders(kwargs) ==
    {o \in [1..Cardinality(DOMAIN kwargs) -> DOMAIN kwargs] :
        \A i, j \in DOMAIN o : o[i] = o[j] => i = j}

\* The order of an argument set of at most one name.
CallOrder(kwargs) == CHOOSE o \in Orders(kwargs) : TRUE

NoArgs == [n \in {} |-> "str"]

\* Argument sets (name -> Python type of the value) used by callers.
CallArgs == {NoArgs, [a |-> "str"]}

ToolNames == {"t1", "T1"}

\* isinstance(value, schema_type_to_python_type[t]); bool is a subclass of int.
PyIsInstance(pytype, t) ==
    CASE t = "string"  -> pytype = "str"
      [] t = "number"  -> pytype \in {"int", "float", "bool"}
      [] t = "integer" -> pytype \in {"int", "bool"}
      [] t = "boolean" -> pytype = "bool"
      [] t = "array"   -> pytype = "list"
      [] t = "object"  -> pytype = "dict"
      [] t = "null"    -> pytype = "NoneType"
      [] OTHER         -> FALSE

SchemaTypes == {"string", "number", "integer", "boolean", "array", "object", "null"}

SeqToSet(s) == {s[i] : i \in DOMAIN s}

\* The subsequence of s whose elements satisfy membership in S.
RECURSIVE SelectIn(_, _)
SelectIn(s, S) ==
    IF s = <<>> THEN <<>>
    ELSE IF Head(s) \in S THEN <<Head(s)>> \o SelectIn(Tail(s), S)
    ELSE SelectIn(Tail(s), S)

(***************************************************************************)
(* MCPClient: pure parts.                                                  *)
(***************************************************************************)

_get_next_id_reuse(rid) == IF rid = 0 THEN 1 ELSE rid

\* MCPClient._get_next_id
_get_next_id(rid) == rid + 1

NotInitialized_connected_only(c, info) == ~c

\* The guard of list_tools / get_tool / call_tool.
NotInitialized(c, info) == ~c \/ info = None

\* The guard of the server_info property.
NoServerInfo(info) == info = None

CacheHit_never(cache) == FALSE

\* list_tools: "if self._tools_cache is not None"
CacheHit(cache) == cache # None

HasResult_or_error(resp) == resp.kind \in {"result", "error"}

HasResult_inverted(resp) == resp.kind = "error"

\* '"result" in response'
HasResult(resp) == resp.kind = "result"

\* response["result"] (of an error response: its "error" object)
Payload(resp) == resp.payload

\* str.lower() of the tool names in use.
Lower(name) == IF name = "T1" THEN "t1" ELSE name

get_tool_caseless(cache, tool) ==
    LET tools == ToolsOf(cache)
        hits == {i \in DOMAIN tools : Lower(tools[i].name) = Lower(tool)}
    IN  IF hits = {} THEN [err |-> "ToolNotFound", def |-> ToolT1]
        ELSE [err |-> "none", def |-> tools[CHOOSE i \in hits : \A j \in hits : i <= j]]

\* MCPClient.get_tool once the catalog is at hand.
get_tool(cache, tool) ==
    LET tools == ToolsOf(cache)
        hits == {i \in DOMAIN tools : tools[i].name = tool}
    IN  IF hits = {} THEN [err |-> "ToolNotFound", def |-> ToolT1]
        ELSE [err |-> "none", def |-> tools[CHOOSE i \in hits : \A j \in hits : i <= j]]

MissingRequired_unchecked(schema, kwargs) == <<>>

MissingRequired_first_only(schema, kwargs) ==
    LET all == SelectIn(schema.required, SeqToSet(schema.required) \ DOMAIN kwargs)
    IN  IF all = <<>> THEN <<>> ELSE <<Head(all)>>

\* validate: required names absent from kwargs, in the order of "required".
MissingRequired(schema, kwargs) ==
    SelectIn(schema.required, SeqToSet(schema.required) \ DOMAIN kwargs)

UnknownParameters_unguarded(schema, kwargs, order) ==
    SelectIn(order, DOMAIN kwargs \ DOMAIN schema.properties)

\* validate: kwargs names absent from a non-empty "properties", in the order
\* of the call.
UnknownParameters(schema, kwargs, order) ==
    IF DOMAIN schema.properties = {} THEN <<>>
    ELSE SelectIn(order, DOMAIN kwargs \ DOMAIN schema.properties)

CheckParameter_none_passes(schema, kwargs, p) ==
    IF p \notin DOMAIN schema.properties THEN "none"
    ELSE LET t == schema.properties[p]
         IN  IF t = "absent" \/ kwargs[p] = "NoneType" THEN "none"
             ELSE IF t \notin SchemaTypes THEN "UnsupportedType"
             ELSE IF ~PyIsInstance(kwargs[p], t) THEN "TypeMismatch"
             ELSE "none"

CheckParameter_unknown_type_passes(schema, kwargs, p) ==
    IF p \notin DOMAIN schema.properties THEN "none"
    ELSE LET t == schema.properties[p]
         IN  IF t = "absent" THEN "none"
             ELSE IF kwargs[p] = "NoneType"
                  THEN (IF t # "null" THEN "NoneValue" ELSE "none")
             ELSE IF t \notin SchemaTypes THEN "none"
             ELSE IF ~PyIsInstance(kwargs[p], t) THEN "TypeMismatch"
             ELSE "none"

\* validate: the type check of one supplied parameter.
CheckParameter(schema, kwargs, p) ==
    IF p \notin DOMAIN schema.properties THEN "none"
    ELSE LET t == schema.properties[p]
         IN  IF t = "absent" THEN "none"
             ELSE IF kwargs[p] = "NoneType"
                  THEN (IF t # "null" THEN "NoneValue" ELSE "none")
             ELSE IF t \notin SchemaTypes THEN "UnsupportedType"
             ELSE IF ~PyIsInstance(kwargs[p], t) THEN "TypeMismatch"
             ELSE "none"

RECURSIVE CheckParameters(_, _, _)
CheckParameters(schema, kwargs, names) ==
    IF names = <<>> THEN "none"
    ELSE LET e == CheckParameter(schema, kwargs, Head(names))
         IN  IF e # "none" THEN e ELSE CheckParameters(schema, kwargs, Tail(names))

\* MCPClient.validate against a tool's inputSchema; the arguments are checked
\* in the order of the call.
ValidateSchema(schema, kwargs, order) ==
    IF schema.type # "absent" /\ schema.type # "object" THEN "SchemaType"
    ELSE IF MissingRequired(schema, kwargs) # <<>> THEN "MissingRequired"
    ELSE IF UnknownParameters(schema, kwargs, order) # <<>> THEN "UnknownParameters"
    ELSE CheckParameters(schema, kwargs, order)

\* validate: the first parameter, in the order of kwargs, whose type check fails.
RECURSIVE FirstFailing(_, _, _)
FirstFailing(schema, kwargs, names) ==
    IF names = <<>> THEN None
    ELSE IF CheckParameter(schema, kwargs, Head(names)) # "none" THEN Head(names)
    ELSE FirstFailing(schema, kwargs, Tail(names))

\* validate: the error raised and what its message names: the missing or the
\* unknown names, or the parameter with its declared and its actual type.
ValidateReport(schema, kwargs, order) ==
    LET err == ValidateSchema(schema, kwargs, order)
        param == IF err \in {"NoneValue", "UnsupportedType", "TypeMismatch"}
                 THEN FirstFailing(schema, kwargs, order)
                 ELSE None
    IN  [err |-> err,
         names |-> CASE err = "MissingRequired"   -> MissingRequired(schema, kwargs)
                     [] err = "UnknownParameters" -> UnknownParameters(schema, kwargs, order)
                     [] OTHER                     -> <<>>,
         param |-> param,
         expected |-> IF param = None THEN None ELSE schema.properties[param],
         actual |-> IF err = "TypeMismatch" THEN kwargs[param] ELSE None]

\* MCPClient.validate once the catalog is at hand.
validate(cache, tool, kwargs) ==
    LET g == get_tool(cache, tool)
    IN  IF g.err # "none" THEN g.err
        ELSE ValidateSchema(g.def.inputSchema, kwargs, CallOrder(kwargs))

\* initialize: the server info held once the result is captured and the
\* notifications/initialized notification ended with nerr.
initialize_on_result_rollback(info, nerr) == IF nerr = "none" THEN info ELSE None

initialize_on_result(info, nerr) == info

(***************************************************************************)
(* Stdio: pure parts.                                                      *)
(***************************************************************************)

_stdin_write_twice(sin, msg) == sin \o <<msg, msg>>

\* Stdio._stdin_write: the line is written and flushed behind the lines the
\* child has not read yet.
_stdin_write(sin, msg) == Append(sin, msg)

_ensure_server_started_no_poll(p) ==
    IF p = None THEN "NotStarted" ELSE "none"

\* Stdio._ensure_server_started
_ensure_server_started(p) ==
    IF p = None THEN "NotStarted"
    ELSE IF p = "dead" THEN "Terminated"
    ELSE "none"

SelectTimesOut_never(out, p) == FALSE

\* _stdout_read: select() returns nothing within wait_timeout: no data, no EOF.
SelectTimesOut(out, p) == out = <<>> /\ p = "alive"

\* _stdout_read: select() reports stdout readable (data, or EOF of a dead child).
SelectReadable(out, p) == out # <<>> \/ p = "dead"

\* os.read(fd, 4096): the most bytes one _stdout_read takes from the pipe.
ReadSize == 4096

\* The size of a short response line, in bytes with its newline.
ShortLine == 64

\* The sizes of the response lines a server writes, in bytes with the newline:
\* a short line, a line of which two exceed one read, a line whose JSON text
\* alone fills one read, and a line of more than two reads.
LineSizes == {ShortLine, 3000, ReadSize + 1, 10000}

\* The JSON text of a response line is complete in a piece of the pipe.
IsJson(piece) == piece.kind \in {"result", "error"}

\* The first n bytes of a piece of more than n bytes: the whole JSON text of a
\* line when only its newline is missing, otherwise text that does not parse.
HeadBytes(piece, n) ==
    IF IsJson(piece) /\ n = piece.bytes - 1
    THEN [piece EXCEPT !.bytes = n]
    ELSE [piece EXCEPT !.kind = "fragment", !.payload = "fragment", !.bytes = n]

\* What stays in the pipe of a piece once os.read took its first n bytes: the
\* end of the line, which is the bare newline when one byte is left.
TailBytes(piece, n) ==
    [piece EXCEPT !.kind = IF piece.bytes - n = 1 THEN "blank" ELSE "fragment",
                  !.payload = "fragment",
                  !.bytes = piece.bytes - n]

\* os.read(fd, n) on a pipe holding out: the first n bytes are taken, whatever
\* line boundaries they cross, and the bytes after them stay in the pipe.
RECURSIVE os_read(_, _)
os_read(out, n) ==
    IF out = <<>> \/ n = 0
    THEN [data |-> <<>>, rest |-> out]
    ELSE LET h == Head(out)
         IN  IF h.bytes <= n
             THEN LET r == os_read(Tail(out), n - h.bytes)
                  IN  [data |-> <<h>> \o r.data, rest |-> r.rest]
             ELSE [data |-> <<HeadBytes(h, n)>>,
                   rest |-> <<TailBytes(h, n)>> \o Tail(out)]

\* _stdout_read: json.loads(os.read(fd, 4096).decode().strip()) of what the
\* pipe holds. strip() drops the newlines around the text; the text parses when
\* it is one whole JSON text and nothing else. Nothing (EOF), several lines, or
\* a cut line do not parse. What os.read did not take stays in the pipe.
ParseRead(out) ==
    LET r == os_read(out, ReadSize)
        text == SelectSeq(r.data, LAMBDA piece : piece.kind # "blank")
    IN  IF Len(text) = 1 /\ IsJson(text[1])
        THEN [err |-> "none", resp |-> text[1], rest |-> r.rest]
        ELSE [err |-> "ParseError",
              resp |-> [respTo |-> 0, kind |-> "error", payload |-> "error",
                        bytes |-> 0],
              rest |-> r.rest]

(***************************************************************************)
(* State predicates and the record of a client call.                       *)
(***************************************************************************)

\* The client is Ready: connected, with the initialize result captured.
Ready == connected /\ server_info # None

\* The record of a call at its start: ready / cached are the client's state
\* then, calls lists the methods handed to transport.request / transport.notify,
\* outcome is how the child behaved in Stdio.connect / Stdio.close and popen
\* lists the calls Stdio.close made on the process handle, child is what
\* became of the child process whose handle Stdio.close dropped.
NewOp(name, tool, kwargs) ==
    [name |-> name, tool |-> tool, kwargs |-> kwargs,
     ready |-> Ready, cached |-> tools_cache # None,
     calls |-> <<>>, err |-> "pending", ret |-> None, secs |-> 0,
     outcome |-> "none", popen |-> <<>>, child |-> "none"]

\* The result a conforming server returns for a method.
ResultOf(method) ==
    CASE method = "initialize" -> "info"
      [] method = "tools/list" -> "catalog"
      [] OTHER                 -> "output"

\* No schema validation was made yet; the server declares T1Schema.
NoCheck ==
    [schema |-> T1Schema,
     kwargs |-> NoArgs,
     order |-> <<>>,
     res |-> [err |-> "none", names |-> <<>>, param |-> None,
              expected |-> None, actual |-> None]]

\* No StreamableHTTP call was made yet.
NoPost ==
    [kind |-> "none", sent |-> None, status |-> 0, token |-> None, body |-> None,
     err |-> "none", ret |-> None]

\* The client, its transports and their observers after construction.
InitTransports ==
    /\ connected = FALSE
    /\ server_info = None
    /\ tools_cache = None
    /\ request_id = 0
    /\ process = None
    /\ stdin = <<>>
    /\ stdout = <<>>
    /\ pc = "idle"
    /\ op = [name |-> "new", tool |-> None, kwargs |-> NoArgs, ready |-> FALSE,
             cached |-> FALSE, calls |-> <<>>, err |-> "none", ret |-> None, secs |-> 0,
             outcome |-> "none", popen |-> <<>>, child |-> "none"]
    /\ built = <<>>
    /\ lastRead = <<0, 0>>
    /\ fetched = FALSE
    /\ closedOnce = FALSE
    /\ spawns = 0
    /\ notifications = 0
    /\ notified = 0
    /\ requests = 0
    /\ session_id = None
    /\ post = NoPost
    /\ accepted = None
    /\ carried = None
    /\ plugin = [connected |-> FALSE, initialized |-> FALSE, cache |-> None,
                 counter |-> 0, handler |-> "previous", saved |-> None, alarm |-> 0,
                 log |-> <<>>]

Init ==
    /\ InitTransports
    /\ validation = NoCheck

(***************************************************************************)
(* Steps shared by the client operations.                                  *)
(***************************************************************************)

\* The call returns (or raises err).
Finish(o, err, ret) ==
    /\ pc' = "idle"
    /\ op' = [o EXCEPT !.err = err, !.ret = ret]

\* Stdio.notify / Stdio.request up to the write, for a handle p, the lines
\* sin and out in the pipes and the line msg: how the call can go on. The
\* decorator raises for no handle and for an exited child, whose stdout
\* communicate() then reads to its end; otherwise the line is written, or the
\* child exits between poll() and the write, which fails ("WriteError": 'Error
\* sending ... to MCP server: [Errno 32] Broken pipe').
TransportWrite(p, sin, out, msg) ==
    LET e == _ensure_server_started(p)
    IN  IF e = "Terminated"
        THEN {[err |-> e, process |-> p, stdin |-> sin, stdout |-> <<>>]}
        ELSE IF e # "none"
        THEN {[err |-> e, process |-> p, stdin |-> sin, stdout |-> out]}
        ELSE {[err |-> "none", process |-> p, stdin |-> _stdin_write(sin, msg),
               stdout |-> out]}
             \cup (IF p = "alive"
                   THEN {[err |-> "WriteError", process |-> "dead", stdin |-> <<>>,
                          stdout |-> out]}
                   ELSE {})

\* _build_request(method) followed by transport.request: Stdio.request checks
\* the process, writes the line and blocks in _stdout_read.
Send(method, o, p, sin, out) ==
    LET id == _get_next_id(request_id)
    IN  /\ request_id' = id
        /\ built' = Append(built, id)
        /\ \E w \in TransportWrite(p, sin, out, [id |-> id, method |-> method]) :
             /\ process' = w.process
             /\ stdin' = w.stdin
             /\ stdout' = w.stdout
             /\ pc' = IF w.err = "none" THEN "waiting" ELSE "idle"
             /\ op' = [o EXCEPT !.calls = Append(@, method),
                                !.err = IF w.err = "none" THEN "pending" ELSE w.err]

\* What list_tools / get_tool / validate / call_tool do with the catalog at
\* hand; out is what the child's stdout holds by then.
AfterCatalog(o, cache, out) ==
    CASE o.name = "list_tools" ->
            /\ Finish(o, "none", cache)
            /\ stdout' = out
            /\ UNCHANGED <<request_id, built, stdin, process>>
      [] o.name = "get_tool" ->
            LET g == get_tool(cache, o.tool)
            IN  /\ Finish(o, g.err, IF g.err = "none" THEN g.def.name ELSE None)
                /\ stdout' = out
                /\ UNCHANGED <<request_id, built, stdin, process>>
      [] o.name = "validate" ->
            /\ Finish(o, validate(cache, o.tool, o.kwargs), None)
            /\ stdout' = out
            /\ UNCHANGED <<request_id, built, stdin, process>>
      [] OTHER ->
            LET v == validate(cache, o.tool, o.kwargs)
            IN  IF v # "none"
                THEN /\ Finish(o, v, None)
                     /\ stdout' = out
                     /\ UNCHANGED <<request_id, built, stdin, process>>
                ELSE Send("tools/call", o, process, stdin, out)

(***************************************************************************)
(* Client operations, from the call to the first blocking read.            *)
(***************************************************************************)

ConnectOutcomes == {"ok", "exited", "spawn_failed"}

InitializeConnects_always(c) == TRUE

\* MCPClient.initialize: transport.connect() is called when not connected.
InitializeConnects(c) == ~c

connect_error_wrapped(outcome) ==
    IF outcome \in {"exited", "spawn_failed"} THEN "FailedToStart" ELSE "none"

\* Stdio.connect: the error it raises. The probe's AnsibleConnectionFailure is
\* re-raised as it is; any other exception is wrapped as "Failed to start".
connect_error(outcome) ==
    CASE outcome = "exited"       -> "ExitedImmediately"
      [] outcome = "spawn_failed" -> "FailedToStart"
      [] OTHER                    -> "none"

\* MCPClient.initialize up to transport.request; Stdio.connect when not
\* connected. The child that passed connect()'s probe may have exited by the
\* time Stdio.request polls it.
Initialize ==
    /\ pc = "idle"
    /\ request_id < MaxRequests
    /\ \E outcome \in (IF InitializeConnects(connected)
                       THEN ConnectOutcomes ELSE {"connected"}) :
         LET o == [NewOp("initialize", None, NoArgs) EXCEPT !.outcome = outcome]
         IN  IF outcome \in {"exited", "spawn_failed"}
             THEN /\ process' = IF outcome = "exited" THEN "dead" ELSE process
                  /\ stdin' = IF outcome = "exited" THEN <<>> ELSE stdin
                  /\ stdout' = IF outcome = "exited" THEN <<>> ELSE stdout
                  /\ Finish([o EXCEPT !.calls = <<"connect">>],
                            connect_error(outcome), None)
                  /\ UNCHANGED <<connected, request_id, built, spawns>>
             ELSE /\ connected' = TRUE
                  /\ spawns' = IF outcome = "ok" THEN spawns + 1 ELSE spawns
                  /\ IF outcome = "ok"
                     THEN \E p \in {"alive", "dead"} :
                            Send("initialize", [o EXCEPT !.calls = <<"connect">>],
                                 p, <<>>, <<>>)
                     ELSE Send("initialize", o, process, stdin, stdout)
    /\ lastRead' = <<0, 0>>
    /\ UNCHANGED <<server_info, tools_cache, fetched, closedOnce>>
    /\ UNCHANGED <<counterVars, httpVars, validatorVars, pluginVars>>

\* list_tools, get_tool, validate and call_tool up to their return or first request.
CatalogOp(name, tool, kwargs) ==
    /\ pc = "idle"
    /\ LET o == NewOp(name, tool, kwargs)
       IN  IF NotInitialized(connected, server_info)
           THEN /\ Finish(o, "NotInitialized", None)
                /\ UNCHANGED <<request_id, built, stdin, process, stdout>>
           ELSE IF CacheHit(tools_cache)
           THEN /\ (name = "call_tool" => request_id < MaxRequests)
                /\ AfterCatalog(o, tools_cache, stdout)
           ELSE /\ request_id + (IF name = "call_tool" THEN 1 ELSE 0) < MaxRequests
                /\ Send("tools/list", o, process, stdin, stdout)
    /\ lastRead' = <<0, 0>>
    /\ UNCHANGED <<connected, server_info, tools_cache, fetched, closedOnce, spawns>>
    /\ UNCHANGED <<counterVars, httpVars, validatorVars, pluginVars>>

ListTools == CatalogOp("list_tools", None, NoArgs)

GetTool == \E tool \in ToolNames : CatalogOp("get_tool", tool, NoArgs)

Validate == \E tool \in ToolNames, kwargs \in CallArgs : CatalogOp("validate", tool, kwargs)

CallTool == \E tool \in ToolNames, kwargs \in CallArgs : CatalogOp("call_tool", tool, kwargs)

\* The server_info property.
ServerInfo ==
    /\ pc = "idle"
    /\ LET o == NewOp("server_info", None, NoArgs)
       IN  IF NoServerInfo(server_info)
           THEN Finish(o, "NotInitialized", None)
           ELSE Finish(o, "none", server_info)
    /\ lastRead' = <<0, 0>>
    /\ UNCHANGED <<connected, server_info, tools_cache, request_id, process, stdin,
                   stdout, built, fetched, closedOnce, spawns>>
    /\ UNCHANGED <<counterVars, httpVars, validatorVars, pluginVars>>

CloseOutcomes_unguarded(p) ==
    IF p = None THEN {"terminate_raises"}
    ELSE IF p = "dead" THEN {"graceful"}
    ELSE {"graceful", "killed", "terminate_raises", "kill_raises"}

\* The endings of Stdio.close in which the TimeoutExpired handler runs: raised
\* by wait(timeout=5), or by terminate() itself.
WaitTimedOut == {"killed", "kill_raises", "rewait_raises"}
TerminateTimedOut == {"terminate_timeout", "terminate_timeout_kill_raises",
                      "terminate_timeout_rewait_raises"}

\* How Stdio.close can end for a held handle. terminate() returns, raises
\* TimeoutExpired or raises something else; wait(timeout=5) returns, expires or
\* raises something else; in the TimeoutExpired handler kill() returns or
\* raises, and so does the wait() after it.
CloseOutcomes(p) ==
    IF p = None THEN {"no_process"}
    ELSE IF p = "dead" THEN {"graceful"}
    ELSE {"graceful", "terminate_raises", "wait_raises"}
         \cup WaitTimedOut \cup TerminateTimedOut

close_calls_always_kill(outcome) ==
    IF outcome = "no_process" THEN <<>> ELSE <<"terminate", "wait", "kill", "wait">>

\* Stdio.close: the calls made on the process handle, in order.
close_calls(outcome) ==
    CASE outcome = "graceful"                        -> <<"terminate", "wait">>
      [] outcome = "killed"                          -> <<"terminate", "wait", "kill", "wait">>
      [] outcome = "terminate_raises"                -> <<"terminate">>
      [] outcome = "wait_raises"                     -> <<"terminate", "wait">>
      [] outcome = "kill_raises"                     -> <<"terminate", "wait", "kill">>
      [] outcome = "rewait_raises"                   -> <<"terminate", "wait", "kill", "wait">>
      [] outcome = "terminate_timeout"               -> <<"terminate", "kill", "wait">>
      [] outcome = "terminate_timeout_kill_raises"   -> <<"terminate", "kill">>
      [] outcome = "terminate_timeout_rewait_raises" -> <<"terminate", "kill", "wait">>
      [] OTHER                                       -> <<>>

\* Stdio.close: what the child process behind the handle can be when close()
\* is left. It has exited when it had exited before, when wait(timeout=5)
\* returned, and when kill() was delivered. When terminate() was delivered and
\* close() is left without a wait that returned (wait(timeout=5) raised
\* another exception than TimeoutExpired, or kill() raised after it expired),
\* nothing has waited for the child: one that exits on SIGTERM has exited, one
\* that ignores it runs on. It runs on when terminate() raised and no kill()
\* was delivered.
close_child(p, outcome) ==
    CASE p = None                                        -> {"none"}
      [] p = "dead"                                      -> {"exited"}
      [] outcome \in {"graceful", "killed", "rewait_raises",
                      "terminate_timeout",
                      "terminate_timeout_rewait_raises"} -> {"exited"}
      [] outcome \in {"wait_raises", "kill_raises"}      -> {"exited", "running"}
      [] OTHER                                           -> {"running"}

close_error_swallowed(outcome) ==
    IF outcome = "kill_raises" THEN "KillError" ELSE "none"

\* Stdio.close: the error it raises. "CloseError" is the AnsibleConnectionFailure
\* 'Error closing MCP process: ...' of the handler for exceptions other than
\* TimeoutExpired; an exception of kill() or of the wait() after it is raised
\* inside the TimeoutExpired handler and leaves close() as it is ("KillError").
close_error(outcome) ==
    CASE outcome \in {"terminate_raises", "wait_raises"}  -> "CloseError"
      [] outcome \in {"kill_raises", "rewait_raises",
                      "terminate_timeout_kill_raises",
                      "terminate_timeout_rewait_raises"} -> "KillError"
      [] OTHER                                           -> "none"

close_handle_kept_on_raise(p, outcome) ==
    IF outcome \in {"terminate_raises", "kill_raises"} THEN p ELSE None

\* Stdio.close: the handle it leaves in _process (finally: self._process = None).
close_handle(p, outcome) == None

\* MCPClient.close: transport.close(), then the client's fields are reset.
Close ==
    /\ pc = "idle"
    /\ \E outcome \in CloseOutcomes(process) : \E child \in close_child(process, outcome) :
         LET o == [NewOp("close", None, NoArgs) EXCEPT !.calls = <<"close">>,
                                                       !.outcome = outcome,
                                                       !.popen = close_calls(outcome),
                                                       !.child = child]
             raised == close_error(outcome) # "none"
         IN  /\ process' = close_handle(process, outcome)
             /\ stdin' = IF process' = None THEN <<>> ELSE stdin
             /\ stdout' = IF process' = None THEN <<>> ELSE stdout
             /\ Finish(o, close_error(outcome), None)
             /\ connected' = IF raised THEN connected ELSE FALSE
             /\ server_info' = IF raised THEN server_info ELSE None
             /\ tools_cache' = IF raised THEN tools_cache ELSE None
    /\ fetched' = FALSE
    /\ closedOnce' = TRUE
    /\ spawns' = 0
    /\ lastRead' = <<0, 0>>
    /\ UNCHANGED <<request_id, built>>
    /\ UNCHANGED <<counterVars, httpVars, validatorVars, pluginVars>>

(***************************************************************************)
(* The blocked request resumes.                                            *)
(***************************************************************************)

Notification == [id |-> 0, method |-> "notifications/initialized"]

\* initialize after transport.request returned resp.
InitializeReturn(resp, rest) ==
    IF HasResult(resp)
    THEN \E w \in TransportWrite(process, stdin, rest, Notification) :
           /\ server_info' = initialize_on_result(Payload(resp), w.err)
           /\ process' = w.process
           /\ stdin' = w.stdin
           /\ stdout' = w.stdout
           /\ Finish([op EXCEPT !.calls = Append(@, "notifications/initialized")],
                     w.err, Payload(resp))
           /\ UNCHANGED <<tools_cache, request_id, built, fetched>>
    ELSE /\ Finish(op, "InitFailed", None)
         /\ stdout' = rest
         /\ UNCHANGED <<server_info, tools_cache, request_id, built, stdin, fetched,
                        process>>

\* list_tools after transport.request returned resp, and its callers' next steps.
ListReturn(resp, rest) ==
    IF HasResult(resp)
    THEN /\ tools_cache' = Payload(resp)
         /\ fetched' = TRUE
         /\ AfterCatalog(op, Payload(resp), rest)
         /\ UNCHANGED server_info
    ELSE /\ Finish(op, "ListFailed", None)
         /\ stdout' = rest
         /\ UNCHANGED <<server_info, tools_cache, request_id, built, stdin, fetched,
                        process>>

\* call_tool after transport.request returned resp.
CallReturn(resp, rest) ==
    /\ IF HasResult(resp)
       THEN Finish(op, "none", Payload(resp))
       ELSE Finish(op, "CallFailed", None)
    /\ stdout' = rest
    /\ UNCHANGED <<server_info, tools_cache, request_id, built, stdin, fetched, process>>

\* Stdio.request returns resp to the client operation that issued it; rest is
\* what the read left in the pipe.
OnResponse(resp, rest) ==
    LET awaiting == op.calls[Len(op.calls)]
    IN  CASE awaiting = "initialize" -> InitializeReturn(resp, rest)
          [] awaiting = "tools/list" -> ListReturn(resp, rest)
          [] OTHER                   -> CallReturn(resp, rest)

\* Stdio.request raises: the client operation propagates the error; out is
\* what the read left in the pipe.
OnTransportError(err, secs, out) ==
    /\ pc' = "idle"
    /\ op' = [op EXCEPT !.err = err, !.secs = secs]
    /\ stdout' = out
    /\ UNCHANGED <<server_info, tools_cache, request_id, built, stdin, fetched, process>>

\* _stdout_read: select() reports data or EOF; os.read takes up to 4096 bytes
\* of what the pipe holds.
StdoutRead ==
    /\ pc = "waiting"
    /\ SelectReadable(stdout, process)
    /\ LET r == ParseRead(stdout)
       IN  IF r.err = "none"
           THEN /\ lastRead' = <<request_id, r.resp.respTo>>
                /\ OnResponse(r.resp, r.rest)
           ELSE /\ lastRead' = lastRead
                /\ OnTransportError(r.err, 0, r.rest)
    /\ UNCHANGED <<connected, closedOnce, spawns>>
    /\ UNCHANGED <<counterVars, httpVars, validatorVars, pluginVars>>

\* _stdout_read: select() returns nothing within wait_timeout seconds.
StdoutTimeout ==
    /\ pc = "waiting"
    /\ SelectTimesOut(stdout, process)
    /\ OnTransportError("Timeout", DefaultWaitTimeout, stdout)
    /\ UNCHANGED <<connected, lastRead, closedOnce, spawns>>
    /\ UNCHANGED <<counterVars, httpVars, validatorVars, pluginVars>>

(***************************************************************************)
(* The server process.                                                     *)
(***************************************************************************)

\* The server reads one line; a notification is consumed without an answer.
ServerNotified ==
    /\ process = "alive"
    /\ stdin # <<>>
    /\ Head(stdin).id = 0
    /\ stdin' = Tail(stdin)
    /\ UNCHANGED <<connected, server_info, tools_cache, request_id, process, stdout,
                   pc, op, built, lastRead, fetched, closedOnce, spawns>>
    /\ UNCHANGED <<counterVars, httpVars, validatorVars, pluginVars>>

\* The server reads one request and writes its response line: a result, in a
\* line of one of the sizes of LineSizes, or an error in a short line.
ServerAnswers ==
    /\ process = "alive"
    /\ stdin # <<>>
    /\ Head(stdin).id # 0
    /\ \E line \in {[kind |-> "result", bytes |-> b] : b \in LineSizes}
                      \cup {[kind |-> "error", bytes |-> ShortLine]} :
         stdout' = Append(stdout,
                          [respTo |-> Head(stdin).id, kind |-> line.kind,
                           payload |-> IF line.kind = "result"
                                       THEN ResultOf(Head(stdin).method) ELSE "error",
                           bytes |-> line.bytes])
    /\ stdin' = Tail(stdin)
    /\ UNCHANGED <<connected, server_info, tools_cache, request_id, process,
                   pc, op, built, lastRead, fetched, closedOnce, spawns>>
    /\ UNCHANGED <<counterVars, httpVars, validatorVars, pluginVars>>

\* The server reads one request and never answers it.
ServerSilent ==
    /\ process = "alive"
    /\ stdin # <<>>
    /\ Head(stdin).id # 0
    /\ stdin' = Tail(stdin)
    /\ UNCHANGED <<connected, server_info, tools_cache, request_id, process, stdout,
                   pc, op, built, lastRead, fetched, closedOnce, spawns>>
    /\ UNCHANGED <<counterVars, httpVars, validatorVars, pluginVars>>

\* The server process exits on its own; what it wrote stays readable.
ServerExits ==
    /\ process = "alive"
    /\ process' = "dead"
    /\ stdin' = <<>>
    /\ UNCHANGED <<connected, server_info, tools_cache, request_id, stdout,
                   pc, op, built, lastRead, fetched, closedOnce, spawns>>
    /\ UNCHANGED <<counterVars, httpVars, validatorVars, pluginVars>>

Next ==
    \/ Initialize
    \/ ListTools
    \/ GetTool
    \/ Validate
    \/ CallTool
    \/ ServerInfo
    \/ Close
    \/ StdoutRead
    \/ StdoutTimeout
    \/ ServerNotified
    \/ ServerAnswers
    \/ ServerSilent
    \/ ServerExits

Spec == Init /\ [][Next]_vars

\* select() returns within wait_timeout, so a blocked request always resumes.
LiveSpec == Spec /\ WF_vars(StdoutRead \/ StdoutTimeout)


(***************************************************************************)
(* A bare Stdio transport driven directly, against the counting server of  *)
(* the unit tests (mcp_server.py): "notify" is counted, "read_notifications" *)
(* is answered with the count, "hello" and "date" with their messages, and *)
(* "timeout" is read and never answered.                                   *)
(***************************************************************************)

\* The record of a Stdio call at its start.
StdioOp(name, method) ==
    [name |-> name, method |-> method, err |-> "pending", ret |-> None,
     notified |-> notified, first |-> requests = 0,
     outcome |-> "none", popen |-> <<>>, child |-> "none"]

\* Stdio.connect; nothing keeps a caller from connecting again.
StdioConnect ==
    /\ pc = "idle"
    /\ \E outcome \in ConnectOutcomes :
         /\ process' = CASE outcome = "ok"     -> "alive"
                         [] outcome = "exited" -> "dead"
                         [] OTHER              -> process
         /\ stdin' = IF outcome = "spawn_failed" THEN stdin ELSE <<>>
         /\ stdout' = IF outcome = "spawn_failed" THEN stdout ELSE <<>>
         /\ notifications' = IF outcome = "spawn_failed" THEN notifications ELSE 0
         /\ notified' = IF outcome = "spawn_failed" THEN notified ELSE 0
         /\ requests' = IF outcome = "spawn_failed" THEN requests ELSE 0
         /\ op' = [StdioOp("connect", None) EXCEPT !.outcome = outcome,
                                                   !.err = connect_error(outcome)]
    /\ UNCHANGED <<pc, clientVars, httpVars, validatorVars, pluginVars>>

\* Stdio.notify(dict(method="notify"))
StdioNotify ==
    /\ pc = "idle"
    /\ notified < MaxNotifies
    /\ \E w \in TransportWrite(process, stdin, stdout, [id |-> 0, method |-> "notify"]) :
         /\ process' = w.process
         /\ stdin' = w.stdin
         /\ stdout' = w.stdout
         /\ notified' = IF w.err = "none" THEN notified + 1 ELSE notified
         /\ op' = [StdioOp("notify", "notify") EXCEPT !.err = w.err]
    /\ UNCHANGED <<pc, notifications, requests, clientVars, httpVars, validatorVars, pluginVars>>

\* Stdio.request(dict(method=method)) up to the blocking read.
StdioRequest(method) ==
    /\ pc = "idle"
    /\ requests < MaxStdioRequests
    /\ \E w \in TransportWrite(process, stdin, stdout, [id |-> 1, method |-> method]) :
         /\ process' = w.process
         /\ stdin' = w.stdin
         /\ stdout' = w.stdout
         /\ requests' = IF w.err = "none" THEN requests + 1 ELSE requests
         /\ pc' = IF w.err = "none" THEN "waiting" ELSE "idle"
         /\ op' = [StdioOp("request", method) EXCEPT
                      !.err = IF w.err = "none" THEN "pending" ELSE w.err]
    /\ UNCHANGED <<notifications, notified, clientVars, httpVars, validatorVars, pluginVars>>

\* The methods the counting server knows besides "notify".
RequestMethods == {"read_notifications", "hello", "date", "timeout"}

StdioRequestAny == \E method \in RequestMethods : StdioRequest(method)

\* Stdio.request: _stdout_read finds stdout readable and returns, or fails to parse.
StdioRequestReturn ==
    /\ pc = "waiting"
    /\ SelectReadable(stdout, process)
    /\ LET r == ParseRead(stdout)
       IN  /\ stdout' = r.rest
           /\ pc' = "idle"
           /\ op' = [op EXCEPT !.err = r.err,
                               !.ret = IF r.err = "none" THEN Payload(r.resp) ELSE None]
    /\ UNCHANGED <<process, stdin, counterVars, clientVars, httpVars, validatorVars, pluginVars>>

\* Stdio.request: _stdout_read times out.
StdioRequestTimeout ==
    /\ pc = "waiting"
    /\ SelectTimesOut(stdout, process)
    /\ pc' = "idle"
    /\ op' = [op EXCEPT !.err = "Timeout"]
    /\ UNCHANGED <<process, stdin, stdout, counterVars, clientVars, httpVars, validatorVars, pluginVars>>

\* Stdio.close on the bare transport.
StdioClose ==
    /\ pc = "idle"
    /\ \E outcome \in CloseOutcomes(process) : \E child \in close_child(process, outcome) :
         /\ process' = close_handle(process, outcome)
         /\ stdin' = IF process' = None THEN <<>> ELSE stdin
         /\ stdout' = IF process' = None THEN <<>> ELSE stdout
         /\ op' = [StdioOp("close", None) EXCEPT !.outcome = outcome,
                                                 !.popen = close_calls(outcome),
                                                 !.child = child,
                                                 !.err = close_error(outcome)]
    /\ UNCHANGED <<pc, counterVars, clientVars, httpVars, validatorVars, pluginVars>>

\* The JSON object the counting server writes for a line of its stdin, None
\* when it writes nothing: "notify" is counted and "timeout" slept on.
CountingAnswer(method, count) ==
    CASE method = "read_notifications" -> [notifications |-> count]
      [] method = "hello"              -> [message |-> "Hello"]
      [] method = "date"               -> [date |-> "today"]
      [] OTHER                         -> None

\* One turn of the counting server's loop over its stdin.
CountingServer ==
    /\ process = "alive"
    /\ stdin # <<>>
    /\ LET method == Head(stdin).method
           answer == CountingAnswer(method, notifications)
       IN  /\ notifications' = IF method = "notify"
                               THEN notifications + 1 ELSE notifications
           /\ stdout' = IF method \in {"read_notifications", "hello", "date"}
                        THEN Append(stdout, [respTo |-> Head(stdin).id, kind |-> "result",
                                             payload |-> answer,
                                             bytes |-> ShortLine])
                        ELSE stdout
    /\ stdin' = Tail(stdin)
    /\ UNCHANGED <<process, pc, op, notified, requests, clientVars, httpVars, validatorVars, pluginVars>>

StdioNext ==
    \/ StdioConnect
    \/ StdioNotify
    \/ StdioRequestAny
    \/ StdioRequestReturn
    \/ StdioRequestTimeout
    \/ StdioClose
    \/ CountingServer
    \/ ServerExits

StdioSpec == Init /\ [][StdioNext]_vars


(***************************************************************************)
(* The StreamableHTTP transport: one POST per message, answered by the     *)
(* endpoint with a status, maybe an Mcp-Session-Id header, and a body.     *)
(***************************************************************************)

\* Session tokens an endpoint may send in Mcp-Session-Id (one of them empty).
Tokens == {"", "s1", "s2"}

\* Response statuses of the endpoint.
Statuses == {200, 202, 204, 404}

\* What open_url can come back with: no response at all, or a response.
Replies ==
    {[reached |-> FALSE, status |-> 0, token |-> None, body |-> None]}
    \cup [reached : {TRUE}, status : Statuses, token : Tokens \cup {None},
          body : {"json", "garbage"}]

StatusAccepted_any(kind, status) == status \in {200, 202}

\* notify: getcode() != 202 raises; request: getcode() != 200 raises.
StatusAccepted(kind, status) ==
    IF kind = "notify" THEN status = 202 ELSE status = 200

\* _build_headers: the Mcp-Session-Id header attached to the POST (None: no
\* such header); the caller-supplied headers are taken not to name it.
_build_headers(sid) ==
    IF sid # None /\ sid # "" THEN sid ELSE None

_extract_session_id_first_only(sid, header) ==
    IF header # None /\ sid = None THEN header ELSE sid

\* _extract_session_id: a session header of the response replaces the token.
_extract_session_id(sid, header) ==
    IF header # None THEN header ELSE sid

\* The error of a StreamableHTTP call: 'Failed to send ...' wrapping the
\* failure of open_url, 'Unexpected response code' or 'Invalid JSON response'.
http_error(kind, reply) ==
    CASE ~reply.reached                                -> "Unreachable"
      [] ~StatusAccepted(kind, reply.status)           -> "UnexpectedStatus"
      [] kind = "request" /\ reply.body = "garbage"    -> "InvalidJSON"
      [] OTHER                                         -> "none"

\* StreamableHTTP.notify / StreamableHTTP.request, from _build_headers to the
\* return or the raised error.
HttpCall(kind) ==
    \E reply \in Replies :
       LET err == http_error(kind, reply)
           checked == reply.reached /\ StatusAccepted(kind, reply.status)
           expected == \/ kind = "notify" /\ reply.status = 202
                       \/ kind = "request" /\ reply.status = 200
       IN  /\ session_id' = IF checked
                            THEN _extract_session_id(session_id, reply.token)
                            ELSE session_id
           /\ post' = [kind |-> kind, sent |-> _build_headers(session_id),
                       status |-> reply.status, token |-> reply.token,
                       body |-> reply.body, err |-> err,
                       ret |-> IF kind = "request" /\ err = "none"
                               THEN reply.body ELSE None]
           /\ accepted' = IF expected /\ reply.token # None
                          THEN reply.token ELSE accepted
           /\ carried' = IF reply.token # None THEN reply.token ELSE carried

HttpNotify ==
    /\ HttpCall("notify")
    /\ UNCHANGED <<process, stdin, stdout, pc, op, clientVars, counterVars, validatorVars, pluginVars>>

HttpRequest ==
    /\ HttpCall("request")
    /\ UNCHANGED <<process, stdin, stdout, pc, op, clientVars, counterVars, validatorVars, pluginVars>>

http_noop_drops_session(sid) == None

\* StreamableHTTP.connect / StreamableHTTP.close: the body is "pass", the
\* session id stays what it was.
http_noop(sid) == sid

\* StreamableHTTP.connect and StreamableHTTP.close do nothing.
HttpConnectOrClose ==
    /\ \E kind \in {"connect", "close"} : post' = [NoPost EXCEPT !.kind = kind]
    /\ session_id' = http_noop(session_id)
    /\ UNCHANGED <<accepted, carried, process, stdin, stdout, pc, op,
                   clientVars, counterVars, validatorVars, pluginVars>>

HttpNext ==
    \/ HttpNotify
    \/ HttpRequest
    \/ HttpConnectOrClose

HttpSpec == Init /\ [][HttpNext]_vars


(***************************************************************************)
(* The schema validator applied to arbitrary schemas and argument sets.    *)
(***************************************************************************)

\* type(value).__name__ of the argument values.
PyTypes == {"str", "int", "float", "bool", "list", "dict", "NoneType"}

\* The "type" of a property: one of the seven, none ("absent"), or unrecognised.
DeclaredTypes == SchemaTypes \cup {"absent", "foo"}

\* "properties" maps over the names a and b.
PropertyMaps ==
    UNION {{f \in [D -> DeclaredTypes] : "b" \in D => f["b"] \in {"string", "absent"}}
           : D \in SUBSET {"a", "b"}}

\* "required" lists over the names a and b.
RequiredLists == UNION {[1..n -> {"a", "b"}] : n \in 0..MaxRequired}

\* inputSchema objects: "type" absent, "object" or something else.
Schemas ==
    [type : {"absent", "object", "array"}, properties : PropertyMaps,
     required : RequiredLists]

\* Keyword arguments over the names a, b and c.
ArgSets ==
    UNION {{k \in [D -> PyTypes] : /\ "b" \in D => k["b"] \in {"str", "int"}
                                   /\ "c" \in D => k["c"] = "str"}
           : D \in SUBSET {"a", "b", "c"}}

\* The client as constructed, after initialize() returned against a
\* conforming server, and after a list_tools() that followed it.
ValidatorClients ==
    {[connected |-> FALSE, server_info |-> None, tools_cache |-> None,
      request_id |-> 0, built |-> <<>>, lastRead |-> <<0, 0>>, fetched |-> FALSE,
      process |-> None, spawns |-> 0,
      op |-> [name |-> "new", tool |-> None, kwargs |-> NoArgs, ready |-> FALSE,
              cached |-> FALSE, calls |-> <<>>, err |-> "none", ret |-> None,
              secs |-> 0, outcome |-> "none", popen |-> <<>>, child |-> "none"]],
     [connected |-> TRUE, server_info |-> ResultOf("initialize"), tools_cache |-> None,
      request_id |-> 1, built |-> <<1>>, lastRead |-> <<1, 1>>, fetched |-> FALSE,
      process |-> "alive", spawns |-> 1,
      op |-> [name |-> "initialize", tool |-> None, kwargs |-> NoArgs, ready |-> FALSE,
              cached |-> FALSE,
              calls |-> <<"connect", "initialize", "notifications/initialized">>,
              err |-> "none", ret |-> ResultOf("initialize"),
              secs |-> 0, outcome |-> "ok", popen |-> <<>>, child |-> "none"]],
     [connected |-> TRUE, server_info |-> ResultOf("initialize"),
      tools_cache |-> ResultOf("tools/list"),
      request_id |-> 2, built |-> <<1, 2>>, lastRead |-> <<2, 2>>, fetched |-> TRUE,
      process |-> "alive", spawns |-> 1,
      op |-> [name |-> "list_tools", tool |-> None, kwargs |-> NoArgs, ready |-> TRUE,
              cached |-> FALSE, calls |-> <<"tools/list">>,
              err |-> "none", ret |-> ResultOf("tools/list"),
              secs |-> 0, outcome |-> "none", popen |-> <<>>, child |-> "none"]]}

\* A client in one of these states, whose server declares the schema drawn for
\* its tool, and an argument set in one of the orders a call can pass it,
\* handed to validate, its outcome pending.
ValidatorInit ==
    /\ \E client \in ValidatorClients :
         /\ connected = client.connected
         /\ server_info = client.server_info
         /\ tools_cache = client.tools_cache
         /\ request_id = client.request_id
         /\ built = client.built
         /\ lastRead = client.lastRead
         /\ fetched = client.fetched
         /\ process = client.process
         /\ spawns = client.spawns
         /\ op = client.op
    /\ stdin = <<>>
    /\ stdout = <<>>
    /\ pc = "idle"
    /\ closedOnce = FALSE
    /\ notifications = 0
    /\ notified = 0
    /\ requests = 0
    /\ session_id = None
    /\ post = NoPost
    /\ accepted = None
    /\ carried = None
    /\ plugin = [connected |-> FALSE, initialized |-> FALSE, cache |-> None,
                 counter |-> 0, handler |-> "previous", saved |-> None, alarm |-> 0,
                 log |-> <<>>]
    /\ \E schema \in Schemas, kwargs \in ArgSets :
         \E order \in Orders(kwargs) :
            validation = [schema |-> schema, kwargs |-> kwargs, order |-> order,
                          res |-> [NoCheck.res EXCEPT !.err = "pending"]]

\* validate fails with err before it has looked at the schema.
NotChecked(err) == [NoCheck.res EXCEPT !.err = err]

\* validate once the catalog is at hand: get_tool finds the tool or raises,
\* then the arguments are checked against the tool's inputSchema.
ValidateTool(cache, tool, kwargs, order) ==
    LET g == get_tool(cache, tool)
    IN  IF g.err # "none" THEN NotChecked(g.err)
        ELSE ValidateReport(g.def.inputSchema, kwargs, order)

\* The tool names validate is called with here: the tool of the catalog, whose
\* inputSchema is the one drawn.
ValidatedTools == {"t1"}

\* validate returns or raises with the report res.
ValidateFinish(o, res) ==
    /\ Finish(o, res.err, None)
    /\ validation' = [validation EXCEPT !.res = res]

\* MCPClient.validate(tool, **kwargs) up to its return or to the blocking read
\* of its request: get_tool(tool) first, which raises for a client that is
\* not initialized and, when no catalog is cached, has list_tools send a
\* tools/list request; with the catalog at hand the tool is looked up and the
\* arguments are checked against its inputSchema.
ValidateArgs ==
    /\ pc = "idle"
    /\ validation.res.err = "pending"
    /\ \E tool \in ValidatedTools :
         LET o == NewOp("validate", tool, validation.kwargs)
         IN  IF NotInitialized(connected, server_info)
             THEN /\ ValidateFinish(o, NotChecked("NotInitialized"))
                  /\ UNCHANGED <<request_id, built, stdin, process, stdout>>
             ELSE IF CacheHit(tools_cache)
             THEN /\ ValidateFinish(o, ValidateTool(tools_cache, tool, validation.kwargs,
                                                    validation.order))
                  /\ UNCHANGED <<request_id, built, stdin, process, stdout>>
             ELSE /\ Send("tools/list", o, process, stdin, stdout)
                  /\ validation' = IF pc' = "idle"
                                   THEN [validation EXCEPT !.res = NotChecked(op'.err)]
                                   ELSE validation
    /\ lastRead' = <<0, 0>>
    /\ UNCHANGED <<connected, server_info, tools_cache, fetched, closedOnce, spawns>>
    /\ UNCHANGED <<counterVars, httpVars, pluginVars>>

\* validate's tools/list request returns: _stdout_read takes up to 4096 bytes
\* of what the pipe holds; list_tools caches a result and raises for an error
\* response, get_tool looks the tool up and validate checks the arguments.
ValidateRead ==
    /\ pc = "waiting"
    /\ SelectReadable(stdout, process)
    /\ LET r == ParseRead(stdout)
       IN  /\ stdout' = r.rest
           /\ IF r.err # "none"
              THEN /\ ValidateFinish(op, NotChecked(r.err))
                   /\ UNCHANGED <<tools_cache, fetched, lastRead>>
              ELSE IF HasResult(r.resp)
              THEN /\ tools_cache' = Payload(r.resp)
                   /\ fetched' = TRUE
                   /\ lastRead' = <<request_id, r.resp.respTo>>
                   /\ ValidateFinish(op, ValidateTool(Payload(r.resp), op.tool,
                                                      validation.kwargs, validation.order))
              ELSE /\ lastRead' = <<request_id, r.resp.respTo>>
                   /\ ValidateFinish(op, NotChecked("ListFailed"))
                   /\ UNCHANGED <<tools_cache, fetched>>
    /\ UNCHANGED <<connected, server_info, request_id, built, stdin, process,
                   closedOnce, spawns>>
    /\ UNCHANGED <<counterVars, httpVars, pluginVars>>

\* validate's tools/list request times out in _stdout_read.
ValidateTimeout ==
    /\ pc = "waiting"
    /\ SelectTimesOut(stdout, process)
    /\ ValidateFinish([op EXCEPT !.secs = DefaultWaitTimeout], NotChecked("Timeout"))
    /\ UNCHANGED <<connected, server_info, tools_cache, request_id, built, lastRead,
                   fetched, stdin, stdout, process, closedOnce, spawns>>
    /\ UNCHANGED <<counterVars, httpVars, pluginVars>>

ValidatorNext ==
    \/ ValidateArgs
    \/ ValidateRead
    \/ ValidateTimeout
    \/ ServerAnswers
    \/ ServerSilent
    \/ ServerExits

ValidatorSpec == ValidatorInit /\ [][ValidatorNext]_vars


(***************************************************************************)
(* The connection plugin (plugins/connection/mcp.py) with its own child    *)
(* process, and the mcp_run_tools module's execute_tool on top of it.      *)
(***************************************************************************)

\* Values of the connection option mcp_timeout (0 stands for not set: both
\* are falsy in "mcp_timeout or 30").
ConnTimeouts == {0, 10}

\* Values of the timeout option of mcp_run_tools (0 stands for not given).
ModuleTimeouts == {0, 60}

\* _send_mcp_request: the seconds the response is waited for. execute_tool
\* receives the module's timeout and does not hand it on.
_send_mcp_timeout(conn_timeout, module_timeout) ==
    IF conn_timeout # 0 THEN conn_timeout ELSE DefaultMcpTimeout

\* The record of a plugin call at its start.
PluginOp(name, tool, conn_timeout, module_timeout) ==
    [name |-> name, tool |-> tool, connected |-> plugin.connected,
     cached |-> plugin.cache # None, calls |-> <<>>, err |-> "pending", ret |-> None,
     conn_timeout |-> conn_timeout, module_timeout |-> module_timeout,
     wait |-> _send_mcp_timeout(conn_timeout, module_timeout),
     outcome |-> "none", start_err |-> "none"]

NeedsConnect_never(pl) == FALSE

\* ensure_connected: _connect() is called first when not connected.
NeedsConnect(pl) == ~pl.connected

\* How _start_mcp_server can end: the option mcp_server_path is not set, names
\* no file, names a file that is not executable; Popen raises; the child has
\* exited at the probe; the child runs.
StartOutcomes ==
    {"no_path", "not_found", "not_executable", "spawn_failed", "exited", "ok"}

\* _start_mcp_server: the child it leaves behind its handle. The three guards
\* on mcp_server_path raise before Popen is called.
_start_mcp_server_process(outcome) ==
    CASE outcome = "ok"     -> "alive"
      [] outcome = "exited" -> "dead"
      [] OTHER              -> None

\* _start_mcp_server: the error it raises. The guards on mcp_server_path
\* raise their own errors before the try block. The probe's 'MCP server
\* exited immediately' is raised inside the try block whose "except Exception"
\* raises 'Failed to start MCP server: ...' for whatever it catches.
_start_mcp_server_error(outcome) ==
    CASE outcome = "no_path"                     -> "PathRequired"
      [] outcome = "not_found"                   -> "NotFound"
      [] outcome = "not_executable"              -> "NotExecutable"
      [] outcome \in {"exited", "spawn_failed"}  -> "FailedToStart"
      [] OTHER                                   -> "none"

\* _read_mcp_response_with_timeout before readline: the handler is replaced,
\* the one found is kept, and the alarm is set.
_read_arm(pl, timeout) ==
    [pl EXCEPT !.saved = pl.handler, !.handler = "timeout_handler", !.alarm = timeout]

_read_finally_keeps_handler(pl) == [pl EXCEPT !.alarm = 0, !.saved = None]

\* _read_mcp_response_with_timeout, finally: alarm(0) and the kept handler
\* is installed again.
_read_finally(pl) ==
    [pl EXCEPT !.alarm = 0, !.handler = pl.saved, !.saved = None]

\* One step of the plugin: the values of its process, pipes, fields and call.
\* A step taken from the blocking read leaves it (finally); a step that ends
\* in the blocking read has entered it.
PluginStep(p, sin, sout, pl, c, o) ==
    LET left == IF pc = "waiting" THEN _read_finally(pl) ELSE pl
    IN  /\ process' = p
        /\ stdin' = sin
        /\ stdout' = sout
        /\ plugin' = IF c = "waiting" THEN _read_arm(left, o.wait) ELSE left
        /\ pc' = c
        /\ op' = o

PluginReset_keeps_cache(pl) ==
    [pl EXCEPT !.connected = FALSE, !.initialized = FALSE, !.log = <<>>]

\* Connection.close: every field but the id counter is reset; the child that
\* was written to is gone with its handle.
PluginReset(pl) ==
    [pl EXCEPT !.connected = FALSE, !.initialized = FALSE, !.cache = None,
               !.log = <<>>]

\* _connect failed: close(), which drops the handle of whatever child there
\* is and resets the fields, then 'Failed to connect to MCP server: ...'.
PluginConnectFailed(o, pl) ==
    PluginStep(None, <<>>, <<>>, PluginReset(pl), "idle", [o EXCEPT !.err = "ConnectFailed"])

\* get_tools / call_tool proper: the request is built and _send_mcp_request
\* writes it and blocks in readline; a write to an exited child fails.
PluginBody(o, sin, sout, pl) ==
    LET id == pl.counter + 1
        method == IF o.name = "get_tools" THEN "tools/list" ELSE "tools/call"
        sent == [o EXCEPT !.calls = Append(@, method)]
        pl2 == [pl EXCEPT !.counter = id]
    IN  IF process' = None
        THEN PluginStep(process', sin, sout, pl2, "idle", [sent EXCEPT !.err = "NotStarted"])
        ELSE IF process' = "dead"
        THEN PluginStep(process', sin, sout, pl2, "idle", [sent EXCEPT !.err = "CommError"])
        ELSE PluginStep(process', Append(sin, [id |-> id, method |-> method]), sout,
                        [pl2 EXCEPT !.log = Append(@, method)], "waiting", sent)

\* A call decorated with ensure_connected, up to its first blocking read:
\* _connect (_start_mcp_server and the initialize request) when not connected;
\* writing the request fails when the child has exited after the probe. A
\* failed _start_mcp_server has taken no request id.
PluginCall(name, tool, conn_timeout, module_timeout) ==
    /\ pc = "idle"
    /\ plugin.counter + (IF NeedsConnect(plugin) THEN 2 ELSE 1) <= MaxPluginRequests
    /\ LET o == PluginOp(name, tool, conn_timeout, module_timeout)
       IN  IF ~NeedsConnect(plugin)
           THEN /\ process' = process
                /\ PluginBody(o, stdin, stdout, plugin)
           ELSE \E outcome \in StartOutcomes :
                  IF _start_mcp_server_error(outcome) = "none"
                  THEN LET id == plugin.counter + 1
                       IN  PluginStep(_start_mcp_server_process(outcome),
                                      <<[id |-> id, method |-> "initialize"]>>, <<>>,
                                      [plugin EXCEPT !.counter = id,
                                                     !.log = <<"initialize">>],
                                      "waiting",
                                      [o EXCEPT !.calls = <<"initialize">>,
                                                !.outcome = outcome])
                       \/ PluginConnectFailed(
                              [o EXCEPT !.calls = <<"initialize">>,
                                        !.outcome = outcome],
                              [plugin EXCEPT !.counter = id])
                  ELSE PluginConnectFailed(
                           [o EXCEPT !.outcome = outcome,
                                     !.start_err = _start_mcp_server_error(outcome)],
                           plugin)
    /\ UNCHANGED <<clientVars, counterVars, httpVars, validatorVars>>

\* Connection.get_tools(tool_name)
PluginGetTools ==
    \E tool \in {None, "t1"}, conn_timeout \in ConnTimeouts :
       PluginCall("get_tools", tool, conn_timeout, 0)

\* mcp_run_tools execute_tool(connection, tool_name, tool_args, timeout):
\* Connection.call_tool(tool_name, tool_args)
PluginCallTool ==
    \E conn_timeout \in ConnTimeouts, module_timeout \in ModuleTimeouts :
       PluginCall("call_tool", "t1", conn_timeout, module_timeout)

\* The blocked call goes on with the response line it read. After the
\* initialize response: an error response fails _connect; otherwise
\* _send_mcp_notification writes the notification, which fails _connect when
\* the child has exited, and _mcp_initialized and _connected are set. The
\* request of the call itself is written in a step of its own (PluginProceed).
PluginOnResponse(resp, rest) ==
    LET stage == op.calls[Len(op.calls)]
        announced == [op EXCEPT !.calls = Append(@, Notification.method)]
    IN  CASE stage = "initialize" ->
               IF resp.kind = "error"
               THEN PluginConnectFailed(op, plugin)
               ELSE IF process = "dead"
               THEN PluginConnectFailed(announced, plugin)
               ELSE PluginStep(process, Append(stdin, Notification), rest,
                               [plugin EXCEPT !.connected = TRUE, !.initialized = TRUE,
                                              !.log = Append(@, Notification.method)],
                               "connected", announced)
          [] stage = "tools/list" ->
               IF resp.kind = "error"
               THEN PluginStep(process, stdin, rest, plugin, "idle",
                               [op EXCEPT !.err = "ListFailed"])
               ELSE PluginStep(process, stdin, rest, [plugin EXCEPT !.cache = Payload(resp)],
                               "idle",
                               [op EXCEPT !.err = "none",
                                          !.ret = IF op.tool = None THEN Payload(resp)
                                                  ELSE get_tool(Payload(resp), op.tool).err])
          [] OTHER ->
               IF resp.kind = "error"
               THEN PluginStep(process, stdin, rest, plugin, "idle",
                               [op EXCEPT !.err = "CallFailed"])
               ELSE PluginStep(process, stdin, rest, plugin, "idle",
                               [op EXCEPT !.err = "none", !.ret = Payload(resp)])

\* The blocked call fails in _send_mcp_request; inside _connect this closes.
PluginOnError(err) ==
    IF op.calls[Len(op.calls)] = "initialize"
    THEN PluginConnectFailed(op, plugin)
    ELSE PluginStep(process, stdin, stdout, plugin, "idle", [op EXCEPT !.err = err])

\* ensure_connected after _connect returned: the decorated get_tools or
\* call_tool runs; the child may have read the notification or have exited
\* since it was written.
PluginProceed ==
    /\ pc = "connected"
    /\ process' = process
    /\ PluginBody(op, stdin, stdout, plugin)
    /\ UNCHANGED <<clientVars, counterVars, httpVars, validatorVars>>

\* _read_mcp_response_with_timeout: readline returns one line, or EOF of an
\* exited child: 'terminated unexpectedly' when poll() already reports the
\* exit, 'No response from MCP server' when it does not yet.
PluginRead ==
    /\ pc = "waiting"
    /\ stdout # <<>> \/ process = "dead"
    /\ IF stdout # <<>>
       THEN PluginOnResponse(Head(stdout), Tail(stdout))
       ELSE \E err \in {"Terminated", "NoResponse"} : PluginOnError(err)
    /\ UNCHANGED <<clientVars, counterVars, httpVars, validatorVars>>

\* _read_mcp_response_with_timeout: the alarm fires after op.wait seconds.
PluginTimeout ==
    /\ pc = "waiting"
    /\ stdout = <<>>
    /\ process = "alive"
    /\ PluginOnError("Timeout")
    /\ UNCHANGED <<clientVars, counterVars, httpVars, validatorVars>>

\* How Connection.close can end for a held handle: only a TimeoutExpired of
\* wait(timeout=5) leads to kill(); every other exception is logged.
PluginCloseOutcomes(p) ==
    IF p = None THEN {"no_process"}
    ELSE IF p = "dead" THEN {"graceful"}
    ELSE {"graceful", "killed", "error_logged"}

\* Connection.close: errors of terminate / wait / kill are only logged.
PluginClose ==
    /\ pc = "idle"
    /\ \E outcome \in PluginCloseOutcomes(process) :
         PluginStep(None, <<>>, <<>>, PluginReset(plugin), "idle",
                    [PluginOp("close", None, 0, 0) EXCEPT !.err = "none",
                                                         !.outcome = outcome])
    /\ UNCHANGED <<clientVars, counterVars, httpVars, validatorVars>>

PluginNext ==
    \/ PluginGetTools
    \/ PluginCallTool
    \/ PluginProceed
    \/ PluginRead
    \/ PluginTimeout
    \/ PluginClose
    \/ ServerNotified
    \/ ServerAnswers
    \/ ServerSilent
    \/ ServerExits

PluginSpec == Init /\ [][PluginNext]_vars


(***************************************************************************)
(* The exceptions behind the errors.                                       *)
(***************************************************************************)

\* Errors raised by the Stdio transport.
StdioErrors ==
    {"NotStarted", "Terminated", "Timeout", "ParseError", "WriteError",
     "ExitedImmediately", "FailedToStart", "CloseError", "KillError"}

\* Errors raised by the StreamableHTTP transport.
HttpErrors == {"Unreachable", "UnexpectedStatus", "InvalidJSON"}

\* Errors MCPClient raises for an error response (and for a client not initialized).
ProtocolErrors == {"NotInitialized", "InitFailed", "ListFailed", "CallFailed"}

\* Errors raised by get_tool and validate.
ValidationErrors ==
    {"ToolNotFound", "SchemaType", "MissingRequired", "UnknownParameters",
     "NoneValue", "UnsupportedType", "TypeMismatch"}

\* The Python class of the exception raised for an error.
ErrorClass(err) ==
    CASE err = "KillError"         -> "OSError"
      [] err \in StdioErrors       -> "AnsibleConnectionFailure"
      [] err \in HttpErrors        -> "Exception"
      [] err \in ProtocolErrors    -> "MCPError"
      [] OTHER                     -> "ValueError"

\* "except handler" catches an exception of class cls: the class itself or a
\* subclass; every class here derives from Exception and from no other of them.
Catches(handler, cls) == handler = cls \/ handler = "Exception"


(***************************************************************************)
(* Properties.                                                             *)
(***************************************************************************)

ReadyOnlyOps == {"list_tools", "get_tool", "validate", "call_tool", "server_info"}

CatalogOps == {"list_tools", "get_tool", "validate", "call_tool"}

Methods == {"initialize", "tools/list", "tools/call", "notifications/initialized"}

\* This step enters Stdio.request or Stdio.notify: the call in progress hands
\* one more method to the transport.
TransportCalled ==
    /\ op' # op
    /\ op'.calls # <<>>
    /\ op'.calls[Len(op'.calls)] \in Methods
    /\ (pc = "idle" \/ Len(op'.calls) > Len(op.calls))

Returned == pc = "idle"

\* The tool is declared in the catalog and kwargs lack one of its required names.
DeclaredRequiredMissing(cache, tool, kwargs) ==
    \E i \in DOMAIN ToolsOf(cache) :
        /\ ToolsOf(cache)[i].name = tool
        /\ SeqToSet(ToolsOf(cache)[i].inputSchema.required) \ DOMAIN kwargs # {}

\* C1: the n-th request the client builds carries id n: ids start at 1, grow by
\* one per request, are never reused, and neither notifications, failed
\* requests nor close() change the count.
C1_NthRequestHasIdN ==
    /\ \A i \in DOMAIN built : built[i] = i
    /\ request_id = Len(built)

C1_Witness ==
    /\ closedOnce
    /\ Len(built) >= 3
    /\ op.name = "initialize"
    /\ "notifications/initialized" \in SeqToSet(op.calls)

\* C2 as stated: on a Ready client, cached catalog or not, call_tool with a
\* declared-required parameter missing fails validation with no transport call.
C2_ZeroTransportCalls ==
    (Returned /\ op.name = "call_tool" /\ op.ready
        /\ DeclaredRequiredMissing("catalog", op.tool, op.kwargs))
    => (op.err = "MissingRequired" /\ op.calls = <<>>)

\* C2 amended: with the catalog cached, call_tool with a declared-required
\* parameter missing fails validation with no transport call; with no catalog
\* cached the one transport call is the tools/list request; a tools/call
\* request is never sent and transport.notify is never called.
C2_NoCallWhenRequiredMissing ==
    (op.name = "call_tool" /\ op.ready) =>
        /\ (Returned /\ op.cached /\ DeclaredRequiredMissing(tools_cache, op.tool, op.kwargs))
              => (op.err = "MissingRequired" /\ op.calls = <<>>)
        /\ DeclaredRequiredMissing(tools_cache, op.tool, op.kwargs)
              => /\ op.calls \in {<<>>, <<"tools/list">>}
                 /\ (op.calls = <<>>) <=> op.cached
                 /\ Returned => op.err = "MissingRequired"
        /\ DeclaredRequiredMissing("catalog", op.tool, op.kwargs)
              => /\ "tools/call" \notin SeqToSet(op.calls)
                 /\ "notifications/initialized" \notin SeqToSet(op.calls)

C2_Witness ==
    /\ Returned
    /\ op.name = "call_tool"
    /\ op.ready
    /\ op.cached
    /\ op.tool = "t1"
    /\ op.kwargs = NoArgs
    /\ op.err = "MissingRequired"

\* C3: every response Stdio.request returns answers the request it was called with.
C3_ResponseAnswersItsRequest ==
    lastRead[1] = lastRead[2]

\* C4: a request always returns, and one whose server wrote nothing within the
\* timeout fails with the timeout error naming wait_timeout seconds.
C4_SilentServerTimesOut ==
    /\ (pc = "waiting") ~> (pc = "idle")
    /\ [][(pc = "waiting" /\ stdout = <<>> /\ process = "alive" /\ op' # op)
            => (pc' = "idle" /\ op'.err = "Timeout" /\ op'.secs = DefaultWaitTimeout)]_vars

C4_Witness ==
    /\ Returned
    /\ op.err = "Timeout"
    /\ op.secs = DefaultWaitTimeout
    /\ stdout = <<>>

\* C5: Closed is terminal: once close() has been called, no operation on the
\* same client (initialize() in particular) brings it back to Ready.
C5_ClosedIsTerminal ==
    [][(closedOnce /\ ~Ready) => ~Ready']_vars

\* C6: outside Ready each of list_tools, get_tool, call_tool, validate and
\* server_info fails with "Client not initialized" and calls no transport
\* method; tools/list and tools/call are sent from Ready only.
C6_NotReadyRejected ==
    /\ (Returned /\ op.name \in ReadyOnlyOps /\ ~op.ready)
          => (op.err = "NotInitialized" /\ op.calls = <<>>)
    /\ (op.name \in ReadyOnlyOps /\ op.calls # <<>>) => op.ready

C6_Witness ==
    /\ Returned
    /\ connected
    /\ server_info = None
    /\ closedOnce
    /\ op.name = "call_tool"
    /\ op.err = "NotInitialized"

\* C7: after an initialize() that failed on connect, on the initialize request or
\* on an error response, the client is unusable: the guards of list_tools,
\* get_tool, call_tool and server_info reject.
C7_FailedInitializeUnusable ==
    (Returned /\ op.name = "initialize" /\ op.err # "none"
        /\ "notifications/initialized" \notin SeqToSet(op.calls))
    => (NotInitialized(connected, server_info) /\ NoServerInfo(server_info))

\* C8: when the initialize request returned a result and the
\* notifications/initialized notification failed, the result stays captured and
\* the client is Ready; a Ready client's operations are not rejected as
\* uninitialized.
C8_NotifyFailureKeepsReady ==
    /\ (Returned /\ op.name = "initialize" /\ op.err # "none"
          /\ "notifications/initialized" \in SeqToSet(op.calls))
          => (Ready /\ server_info = op.ret)
    /\ (Returned /\ op.name \in ReadyOnlyOps /\ op.ready) => op.err # "NotInitialized"

C8_Witness ==
    /\ Returned
    /\ op.name = "initialize"
    /\ op.err = "Terminated"
    /\ "notifications/initialized" \in SeqToSet(op.calls)
    /\ server_info = "info"

\* C9: after any close() the transport is released and the client is not
\* connected and holds neither server info nor tool catalog.
C9_CloseClearsClient ==
    (Returned /\ op.name = "close")
    => (process = None /\ ~connected /\ server_info = None /\ tools_cache = None)

\* C10: once a tools/list result is cached, until close(), the cache stays, no
\* list_tools, get_tool, validate or call_tool sends tools/list again, and
\* list_tools returns the cached object.
C10_CatalogFetchedOnce ==
    /\ fetched => tools_cache # None
    /\ (op.name \in CatalogOps /\ op.ready /\ op.cached)
          => "tools/list" \notin SeqToSet(op.calls)
    /\ (Returned /\ op.name = "list_tools" /\ op.ready /\ op.cached)
          => (op.err = "none" /\ op.ret = tools_cache)

C10_Witness ==
    /\ Returned
    /\ fetched
    /\ op.name = "list_tools"
    /\ op.cached
    /\ op.ret = "catalog"

\* C11: after Stdio.close() finished, returning or raising, the transport holds
\* no process handle: when the child exited on terminate(), when kill() was
\* needed, and when terminate() or kill() raised.
C11_HandleNoneAfterClose ==
    (Returned /\ op.name = "close") => process = None

C11_Witness ==
    /\ Returned
    /\ op.name = "close"
    /\ op.outcome = "kill_raises"
    /\ op.err = "KillError"
    /\ process = None

\* C12 as stated: Stdio.close() raises only if the force-kill fails; a failure
\* or a timeout of the graceful termination leads to a kill() attempt, not to
\* an error.
C12_ErrorOnlyIfKillFails ==
    (Returned /\ op.name = "close")
    => /\ (op.err # "none" => "kill" \in SeqToSet(op.popen))
       /\ (op.outcome \notin {"no_process", "graceful"}
              => "kill" \in SeqToSet(op.popen))

\* C12: only a timeout of the graceful termination leads to kill(): close()
\* then returns normally if kill() and wait() succeed, and the exception of a
\* failing kill() or wait() leaves close() unwrapped. Any other failure of
\* terminate() or wait() raises 'Error closing MCP process' and kill() is not
\* attempted.
C12_CloseErrors ==
    (Returned /\ op.name = "close")
    => /\ (op.outcome = "graceful"
              => op.err = "none" /\ op.popen = <<"terminate", "wait">>)
       /\ (op.outcome \in {"killed", "terminate_timeout"}
              => /\ op.err = "none"
                 /\ SubSeq(op.popen, Len(op.popen) - 1, Len(op.popen)) = <<"kill", "wait">>)
       /\ (op.outcome \in {"terminate_raises", "wait_raises"}
              => op.err = "CloseError" /\ "kill" \notin SeqToSet(op.popen))
       /\ (op.outcome \in (WaitTimedOut \cup TerminateTimedOut) \ {"killed", "terminate_timeout"}
              => op.err = "KillError" /\ "kill" \in SeqToSet(op.popen))
       /\ ("kill" \in SeqToSet(op.popen)
              <=> op.outcome \in WaitTimedOut \cup TerminateTimedOut)
       /\ process = None

C12_Witness ==
    /\ Returned
    /\ op.name = "close"
    /\ op.outcome = "terminate_raises"
    /\ op.err = "CloseError"
    /\ op.popen = <<"terminate">>

\* C13: close() on a transport that holds no handle (never connected, or closed
\* before) calls nothing on a process, raises nothing and leaves the transport
\* as it was, however often it is repeated.
C13_CloseIdempotent ==
    [][(pc = "idle" /\ process = None /\ op' # op /\ op'.name = "close")
         => /\ op'.err = "none"
            /\ op'.popen = <<>>
            /\ process' = None
            /\ stdin' = stdin
            /\ stdout' = stdout]_vars

C13_Witness ==
    /\ Returned
    /\ op.name = "close"
    /\ op.outcome = "no_process"
    /\ op.err = "none"
    /\ closedOnce
    /\ request_id > 0

\* C14: every Stdio.request and Stdio.notify checks the process first: without
\* a handle it raises 'MCP server process not started.', with an exited
\* process 'MCP server process terminated unexpectedly.', and in both cases
\* nothing is written to stdin and nothing is read from stdout.
C14_NothingWrittenNothingRead ==
    [][TransportCalled
         => /\ (process' = None => op'.err = "NotStarted")
            /\ ((process = "dead" /\ "connect" \notin SeqToSet(op'.calls))
                   => op'.err = "Terminated")
            /\ (op'.err \in {"NotStarted", "Terminated"}
                   => /\ process' # "alive"
                      /\ stdin' = stdin
                      /\ pc' = "idle"
                      /\ (pc = "idle" => stdout' = stdout))]_vars

\* C14: every Stdio.request and Stdio.notify checks the process first: without
\* a handle it raises 'MCP server process not started.', with an exited
\* process 'MCP server process terminated unexpectedly.'; in both cases
\* nothing is written to stdin and no response is read, and for an exited
\* process what its stdout still held is consumed into the error.
C14_ProcessCheckedBeforeIO ==
    [][TransportCalled
         => /\ (process' = None => op'.err = "NotStarted")
            /\ ((process = "dead" /\ "connect" \notin SeqToSet(op'.calls))
                   => op'.err = "Terminated")
            /\ (op'.err \in {"NotStarted", "Terminated"}
                   => /\ process' # "alive"
                      /\ stdin' = stdin
                      /\ pc' = "idle"
                      /\ (pc = "idle" => lastRead' = <<0, 0>>))
            /\ (op'.err = "NotStarted" /\ pc = "idle" => stdout' = stdout)
            /\ (op'.err = "Terminated" => stdout' = <<>>)]_vars

C14_Witness ==
    /\ Returned
    /\ op.name = "call_tool"
    /\ op.calls = <<"tools/call">>
    /\ op.err = "Terminated"
    /\ process = "dead"

\* C15: Stdio.connect() keeps its two start-up failures apart: a child found
\* exited at the probe raises 'MCP server exited immediately ...', a failing
\* spawn raises 'Failed to start MCP server: ...', never the other's message.
C15_ConnectErrorsDistinct ==
    (Returned /\ op.name = "initialize")
    => /\ (op.outcome = "exited" <=> op.err = "ExitedImmediately")
       /\ (op.outcome = "spawn_failed" <=> op.err = "FailedToStart")

C15_Witness ==
    /\ Returned
    /\ op.name = "initialize"
    /\ op.outcome = "exited"
    /\ op.err = "ExitedImmediately"
    /\ process = "dead"

\* C16: a response read that finds the server's output at EOF with no data
\* fails with 'No response from MCP server', not with a parse error.
C16_EofGivesNoResponse ==
    [][(pc = "waiting" /\ stdout = <<>> /\ process = "dead" /\ op' # op)
         => op'.err = "NoResponse"]_vars

\* Requests written to the server whose response the client has not read:
\* those still in the child's stdin and those answered in its unread stdout.
UnreadRequests ==
    Cardinality({i \in DOMAIN stdin : stdin[i].id # 0})
      + Cardinality({i \in DOMAIN stdout : IsJson(stdout[i])})

\* C17: at every moment at most one request written to the server is without
\* a response read by the client, also after calls that ended in a timeout.
C17_AtMostOneOutstanding == UnreadRequests <= 1

\* The "notify" lines the child has not read yet.
NotifyLines(sin) == Cardinality({i \in DOMAIN sin : sin[i].method = "notify"})

\* C18: the lines written to the Stdio transport reach the server in send
\* order, none lost or duplicated: each Stdio.notify call that returned on a
\* connection is one line the running server has counted or has still to
\* read, and after n such calls the first request is processed behind all n
\* notifications: the counting server answers "read_notifications" with n.
C18_CountedInOrder ==
    /\ process = "alive" => notifications + NotifyLines(stdin) = notified
    /\ (Returned /\ op.name = "request" /\ op.method = "read_notifications"
          /\ op.first /\ op.err = "none")
       => op.ret = [notifications |-> op.notified]

C18_Witness ==
    /\ Returned
    /\ op.name = "request"
    /\ op.method = "read_notifications"
    /\ op.first
    /\ op.err = "none"
    /\ op.notified = MaxNotifies
    /\ op.ret = [notifications |-> MaxNotifies]

\* C19: a StreamableHTTP notify succeeds only on status 202 and a request only
\* on status 200; with any other status the call raises a transport error and
\* returns no body.
C19_OnlyExpectedStatusSucceeds ==
    /\ post.kind = "notify"
          => /\ (post.err = "none" <=> post.status = 202)
             /\ post.ret = None
    /\ post.kind = "request"
          => /\ (post.err = "none" => post.status = 200)
             /\ (post.status # 200 => post.err # "none" /\ post.ret = None)

C19_Witness ==
    /\ post.kind = "request"
    /\ post.status = 202
    /\ post.body = "json"
    /\ post.err = "UnexpectedStatus"
    /\ post.ret = None

\* A StreamableHTTP notify or request is made in this step.
Posted == post' # post /\ post'.kind \in {"notify", "request"}

\* C20 as stated: once any response has carried an Mcp-Session-Id header,
\* every later POST carries the header with the most recently received token.
C20_LatestCarriedTokenSent ==
    [][(Posted /\ carried # None) => post'.sent = carried]_vars

\* C20: once a response with the expected status (202 to a notify, 200 to a
\* request) has carried a non-empty Mcp-Session-Id, every later POST carries
\* the header with the token most recently received that way; a token on a
\* response with another status is not captured, and no header is attached
\* before a token was captured or while the captured token is empty.
C20_LatestAcceptedTokenSent ==
    [][Posted
         => /\ (accepted \notin {None, ""} => post'.sent = accepted)
            /\ (accepted \in {None, ""} => post'.sent = None)]_vars

C20_Witness ==
    /\ post.kind = "notify"
    /\ post.sent = "s1"
    /\ post.status = 202
    /\ post.token = "s2"
    /\ session_id = "s2"
    /\ accepted = "s2"

\* The errors validate raises once it has the tool's inputSchema.
SchemaErrors ==
    {"SchemaType", "MissingRequired", "UnknownParameters", "NoneValue",
     "UnsupportedType", "TypeMismatch"}

\* validate has got the tool's inputSchema from get_tool and has returned or
\* raised.
Validated == validation.res.err \in {"none"} \cup SchemaErrors

\* The schema's top-level type lets validation go on.
SchemaTypeOk == validation.schema.type \in {"absent", "object"}

\* Required names the arguments do not supply.
MissingNames == SeqToSet(validation.schema.required) \ DOMAIN validation.kwargs

\* Supplied names a non-empty properties map does not declare.
UnknownNames ==
    IF DOMAIN validation.schema.properties = {} THEN {}
    ELSE DOMAIN validation.kwargs \ DOMAIN validation.schema.properties

\* Supplied names the properties map declares.
TypedNames == DOMAIN validation.kwargs \cap DOMAIN validation.schema.properties

\* C21: validate fails whenever a required name is absent from the arguments,
\* and the missing-parameters error (raised unless the schema's own type is
\* rejected first) lists every missing required name, not just the first.
C21_AllMissingListed ==
    Validated
    => /\ MissingNames # {} => validation.res.err # "none"
       /\ (MissingNames # {} /\ SchemaTypeOk) => validation.res.err = "MissingRequired"
       /\ validation.res.err = "MissingRequired"
             => /\ SeqToSet(validation.res.names) = MissingNames
                /\ MissingNames # {}

C21_Witness ==
    /\ validation.res.err = "MissingRequired"
    /\ validation.res.names = <<"b", "a">>
    /\ validation.kwargs = [c |-> "str"]

\* C22: with a non-empty properties map validate fails whenever an argument
\* name is not in the map, and the unknown-parameters error (raised once the
\* schema type and the required names passed) lists all unknown names; with
\* an empty or absent properties map no name is rejected as unknown.
C22_AllUnknownListed ==
    Validated
    => /\ UnknownNames # {} => validation.res.err # "none"
       /\ (UnknownNames # {} /\ SchemaTypeOk /\ MissingNames = {})
             => validation.res.err = "UnknownParameters"
       /\ validation.res.err = "UnknownParameters"
             => /\ SeqToSet(validation.res.names) = UnknownNames
                /\ UnknownNames # {}
       /\ (DOMAIN validation.schema.properties = {} /\ SchemaTypeOk /\ MissingNames = {})
             => validation.res.err = "none"

C22_Witness ==
    /\ validation.res.err = "UnknownParameters"
    /\ validation.res.names = <<"c", "b">>
    /\ validation.order = <<"c", "b">>
    /\ DOMAIN validation.schema.properties = {"a"}

\* The shape each declared type stands for: text, any numeric, whole numeric,
\* truth value, ordered sequence, keyed mapping.
ShapeMatches(pytype, t) ==
    CASE t = "string"  -> pytype = "str"
      [] t = "number"  -> pytype \in {"int", "float"}
      [] t = "integer" -> pytype = "int"
      [] t = "boolean" -> pytype = "bool"
      [] t = "array"   -> pytype = "list"
      [] OTHER         -> pytype = "dict"

\* Every argument reaches its type check and is non-null with one of the six
\* value types declared.
AllTypedNonNull ==
    /\ SchemaTypeOk
    /\ MissingNames = {}
    /\ UnknownNames = {}
    /\ TypedNames # {}
    /\ \A p \in TypedNames :
          /\ validation.kwargs[p] # "NoneType"
          /\ validation.schema.properties[p] \in SchemaTypes \ {"null"}

\* C23: for non-null arguments with a declared type among string, number,
\* integer, boolean, array, object, validation succeeds exactly when every
\* value's shape matches its declared type, and a mismatch fails naming the
\* parameter, the expected type and the actual type.
C23_ShapeDecides ==
    (Validated /\ AllTypedNonNull)
    => /\ validation.res.err = "none"
            <=> \A p \in TypedNames :
                   ShapeMatches(validation.kwargs[p], validation.schema.properties[p])
       /\ validation.res.err # "none"
            => /\ validation.res.err = "TypeMismatch"
               /\ validation.res.param \in TypedNames
               /\ validation.res.expected
                      = validation.schema.properties[validation.res.param]
               /\ validation.res.actual = validation.kwargs[validation.res.param]

\* C24: a None argument whose parameter declares a type other than "null"
\* makes validate fail; with the declared type "null" it passes its check.
C24_NullOnlyForNullType ==
    Validated
    => /\ \A p \in TypedNames :
             (/\ validation.kwargs[p] = "NoneType"
              /\ validation.schema.properties[p] \notin {"absent", "null"})
             => validation.res.err # "none"
       /\ validation.res.err = "NoneValue"
             => /\ validation.kwargs[validation.res.param] = "NoneType"
                /\ validation.res.expected \notin {"absent", "null"}
       /\ (/\ SchemaTypeOk /\ MissingNames = {} /\ UnknownNames = {}
           /\ \A p \in TypedNames : /\ validation.kwargs[p] = "NoneType"
                                     /\ validation.schema.properties[p] = "null")
             => validation.res.err = "none"

C24_Witness ==
    /\ validation.res.err = "NoneValue"
    /\ validation.res.param = "a"
    /\ validation.res.expected = "integer"
    /\ validation.kwargs = [a |-> "NoneType"]

\* Supplied parameters whose declared type is none of the seven.
UnsupportedNames ==
    {p \in TypedNames : validation.schema.properties[p] \notin SchemaTypes \cup {"absent"}}

\* C25 as stated: an argument whose declared type is outside the seven makes
\* validate fail, and the failure of that argument is the 'unsupported
\* parameter type' error whatever its value.
C25_UnsupportedTypeError ==
    \A p \in UnsupportedNames :
       Validated
       => /\ validation.res.err # "none"
          /\ validation.res.param = p => validation.res.err = "UnsupportedType"

\* C25: an argument whose declared type is outside the seven always makes
\* validate fail: with the 'unsupported parameter type' error when its value
\* is not None, with the 'cannot be None' error when its value is None.
C25_UnsupportedTypeRejected ==
    \A p \in UnsupportedNames :
       Validated
       => /\ validation.res.err # "none"
          /\ validation.res.param = p
                => validation.res.err = IF validation.kwargs[p] = "NoneType"
                                        THEN "NoneValue" ELSE "UnsupportedType"

C25_Witness ==
    /\ validation.res.err = "UnsupportedType"
    /\ validation.res.param = "a"
    /\ validation.res.expected = "foo"
    /\ validation.kwargs = [a |-> "dict"]

\* C29: once Connection.get_tools has fetched the catalog on a connected
\* connection, later get_tools calls are answered from the cache and send no
\* tools/list request, until close().
C29_PluginCatalogCached ==
    (op.name = "get_tools" /\ op.connected /\ op.cached)
    => "tools/list" \notin SeqToSet(op.calls)

\* C30: a timeout given to mcp_run_tools bounds the wait for the tools/call
\* response in place of the connection's mcp_timeout.
C30_ModuleTimeoutBoundsWait ==
    (op.name = "call_tool" /\ op.module_timeout # 0
       /\ "tools/call" \in SeqToSet(op.calls))
    => op.wait = op.module_timeout

\* The spec's three kinds of failure.
KindOf(err) ==
    CASE err \in StdioErrors \cup HttpErrors -> "transport"
      [] err \in ProtocolErrors             -> "protocol"
      [] OTHER                              -> "validation"

\* The failures raised by the last client or transport calls.
RaisedNow == {e \in {op.err, post.err} : e \notin {"none", "pending"}}

\* C26: every failure belongs to one of the kinds transport, protocol and
\* validation, and the handler that selects a raised failure's class catches
\* no failure of another kind, with the Stdio and the StreamableHTTP transport.
C26_KindsDisjoint ==
    \A e \in RaisedNow :
       \A f \in StdioErrors \cup HttpErrors \cup ProtocolErrors \cup ValidationErrors :
          KindOf(f) # KindOf(e) => ~Catches(ErrorClass(e), ErrorClass(f))

\* Names of the tools in the client's catalog.
CatalogNames == {ToolsOf(tools_cache)[i].name : i \in DOMAIN ToolsOf(tools_cache)}

\* C27: get_tool returns a cataloged definition whose name is exactly the
\* argument, and fails with a not-found error, caught by neither the transport
\* nor the protocol handler, when no cataloged tool has that name; call_tool
\* for such a name fails the same way and sends no tools/call request.
C27_ExactNameOrNotFound ==
    /\ (Returned /\ op.name = "get_tool" /\ op.err = "none")
          => (op.ret = op.tool /\ op.tool \in CatalogNames)
    /\ (Returned /\ op.name \in {"get_tool", "call_tool"} /\ op.err = "ToolNotFound")
          => op.tool \notin CatalogNames
    /\ (Returned /\ op.name \in {"get_tool", "call_tool"} /\ op.ready
          /\ tools_cache # None /\ op.tool \notin CatalogNames)
          => op.err = "ToolNotFound"
    /\ (op.name = "call_tool" /\ op.tool # "t1")
          => "tools/call" \notin SeqToSet(op.calls)
    /\ \A e \in StdioErrors \cup ProtocolErrors :
          ~Catches(ErrorClass(e), ErrorClass("ToolNotFound"))

C27_Witness ==
    /\ Returned
    /\ op.name = "call_tool"
    /\ op.tool = "T1"
    /\ op.err = "ToolNotFound"
    /\ op.calls = <<"tools/list">>
    /\ tools_cache = "catalog"

\* C28: when the response handed to initialize, list_tools or call_tool
\* carries an error and no result, the operation fails with the MCPError of
\* its method; nothing is returned, and neither server info nor tool catalog
\* is stored.
C28_ErrorResponseFails ==
    [][(pc = "waiting" /\ ParseRead(stdout).err = "none"
          /\ ParseRead(stdout).resp.kind = "error" /\ op' # op)
         => /\ pc' = "idle"
            /\ op'.err = CASE op.calls[Len(op.calls)] = "initialize" -> "InitFailed"
                            [] op.calls[Len(op.calls)] = "tools/list" -> "ListFailed"
                            [] OTHER                                  -> "CallFailed"
            /\ ErrorClass(op'.err) = "MCPError"
            /\ op'.ret = None
            /\ server_info' = server_info
            /\ tools_cache' = tools_cache]_vars

C28_Witness ==
    /\ Returned
    /\ op.name = "call_tool"
    /\ op.calls = <<"tools/list">>
    /\ op.err = "ListFailed"
    /\ tools_cache = None
    /\ stdout = <<>>

\* C31: after every Connection.close(), called by the user or by a failed
\* _connect, whatever terminate / wait / kill did, the plugin is not connected,
\* not initialized, holds no tool cache and no process handle.
C31_CloseResetsPlugin ==
    (pc = "idle" /\ (op.name = "close" \/ op.err = "ConnectFailed"))
    => /\ ~plugin.connected
       /\ ~plugin.initialized
       /\ plugin.cache = None
       /\ process = None

C31_Witness ==
    /\ op.name = "close"
    /\ op.outcome = "error_logged"
    /\ op.connected
    /\ op.cached
    /\ plugin.cache = None
    /\ ~plugin.connected
    /\ process = None

\* The tools messages among the lines written to the current child.
ToolsMessages == {"tools/list", "tools/call"}

\* C36: a tools/list or tools/call message is written to a child only after
\* the initialize request and the notifications/initialized notification were
\* written to that child; the call that follows close() spawns a new child and
\* starts with the initialize request (or fails to connect).
C36_HandshakeBeforeTools ==
    [][/\ \A i \in DOMAIN plugin'.log :
            plugin'.log[i] \in ToolsMessages
            => /\ i > 2
               /\ plugin'.log[1] = "initialize"
               /\ plugin'.log[2] = "notifications/initialized"
       /\ (op.name = "close" /\ op'.name \in {"get_tools", "call_tool"})
            => \/ op'.err = "ConnectFailed" /\ process' = None
               \/ /\ process' = "alive"
                  /\ op'.calls = <<"initialize">>
                  /\ plugin'.log = <<"initialize">>]_vars

C36_Witness ==
    /\ op.name = "call_tool"
    /\ ~op.connected
    /\ plugin.counter = 4
    /\ plugin.log = <<"initialize", "notifications/initialized", "tools/call">>

\* C39: _start_mcp_server reports a server that had exited at the start-up
\* probe with the 'MCP server exited immediately' error, not with the
\* 'Failed to start MCP server' error of spawn failures.
C39_ExitedImmediatelyReported ==
    (op.outcome = "exited" /\ op.start_err # "none")
    => op.start_err = "ExitedImmediately"

\* C40: whenever _read_mcp_response_with_timeout is left (a line was read,
\* EOF, the process terminated, the timeout was raised) no alarm is pending
\* and the SIGALRM handler found on entry is installed again.
C40_SignalStateRestored ==
    pc # "waiting" => (plugin.alarm = 0 /\ plugin.handler = "previous")

C40_Witness ==
    /\ pc = "idle"
    /\ op.err = "Timeout"
    /\ op.calls = <<"tools/list">>
    /\ plugin.alarm = 0
    /\ plugin.handler = "previous"

\* C37: StreamableHTTP.connect and close leave the session token as it is,
\* so the POST that follows them carries the token captured before; the
\* token changes only with a response of accepted status that carries a
\* session header, and becomes that header's token.
C37_SessionSurvivesClose ==
    [][/\ post'.kind \in {"connect", "close"} => session_id' = session_id
       /\ (post.kind \in {"connect", "close"} /\ post'.kind \in {"notify", "request"})
            => post'.sent = IF accepted \in {None, ""} THEN None ELSE accepted
       /\ session_id' # session_id
            => /\ post'.kind \in {"notify", "request"}
               /\ StatusAccepted(post'.kind, post'.status)
               /\ post'.token # None
               /\ session_id' = post'.token]_vars

C37_Witness ==
    /\ post.kind = "close"
    /\ session_id = "s1"
    /\ accepted = "s1"

\* C32: between two close() calls of one client (or from its construction)
\* transport.connect() succeeds at most once, however often initialize() is
\* called: no second child is spawned.
C32_ConnectSucceedsOnce ==
    spawns <= 1

C32_Witness ==
    /\ op.name = "initialize"
    /\ op.outcome = "connected"
    /\ "connect" \notin SeqToSet(op.calls)
    /\ spawns = 1
    /\ request_id >= 2
    /\ process = "alive"

\* C33: a Stdio.request that reads from the child's stdout takes exactly the
\* first line and returns its JSON object, also when the child has written
\* more than that; what follows the first line stays in the stream.
C33_OneLinePerRead ==
    [][(pc = "waiting" /\ pc' = "idle" /\ stdout # <<>> /\ IsJson(Head(stdout)))
         => (stdout' = Tail(stdout) /\ op'.err # "ParseError")]_vars

\* Stdio.close found the graceful termination timed out (TimeoutExpired).
GraceExpired == op.outcome \in WaitTimedOut \cup TerminateTimedOut

\* C34: Stdio.close calls terminate, then wait, and kill exactly when the
\* wait timed out, kill being followed by a wait; kill is not called when the
\* process exits in time, and neither kill nor wait when terminate raises.
C34_KillFollowedByWait ==
    op.name = "close"
    => /\ ("kill" \in SeqToSet(op.popen) <=> GraceExpired)
       /\ (\A i \in DOMAIN op.popen :
              op.popen[i] = "kill" => (i < Len(op.popen) /\ op.popen[i + 1] = "wait"))
       /\ (op.outcome = "graceful" => op.popen = <<"terminate", "wait">>)
       /\ (op.outcome = "terminate_raises" => op.popen = <<"terminate">>)

\* C34: Stdio.close calls terminate, then wait, and kill exactly when the
\* graceful termination timed out; a kill that returns is followed by a wait, a
\* kill that raises ends the calls; kill is not called when the process exits
\* in time, and neither kill nor wait when terminate raises another error.
C34_KillThenWaitUnlessKillRaises ==
    op.name = "close"
    => /\ ("kill" \in SeqToSet(op.popen) <=> GraceExpired)
       /\ (\A i \in DOMAIN op.popen :
              op.popen[i] = "kill"
              => \/ (i < Len(op.popen) /\ op.popen[i + 1] = "wait")
                 \/ (i = Len(op.popen)
                       /\ op.outcome \in {"kill_raises", "terminate_timeout_kill_raises"}))
       /\ (op.popen # <<>> => Head(op.popen) = "terminate")
       /\ (op.outcome \in WaitTimedOut
              => SubSeq(op.popen, 1, 3) = <<"terminate", "wait", "kill">>)
       /\ (op.outcome \in TerminateTimedOut
              => SubSeq(op.popen, 1, 2) = <<"terminate", "kill">>)
       /\ (op.outcome \in {"graceful", "wait_raises"} => op.popen = <<"terminate", "wait">>)
       /\ (op.outcome = "terminate_raises" => op.popen = <<"terminate">>)

C34_Witness ==
    /\ op.name = "close"
    /\ op.outcome = "killed"
    /\ op.popen = <<"terminate", "wait", "kill", "wait">>
    /\ op.err = "none"
    /\ process = None

\* The notifications among the lines the child has not read yet.
NotificationsIn(sin) == Cardinality({i \in DOMAIN sin : sin[i].id = 0})

\* The orders in which initialize hands work to the transport.
InitializeOrders ==
    {<<"connect">>, <<"connect", "initialize">>,
     <<"connect", "initialize", "notifications/initialized">>,
     <<"initialize">>, <<"initialize", "notifications/initialized">>}

\* C35: in MCPClient.initialize connect() comes before the initialize
\* request; the notifications/initialized notification is handed to the
\* transport only after the request returned a result and is written once in
\* an initialize that succeeds; none is written after an error response or a
\* failure of the transport.
C35_InitializeOrder ==
    [][/\ op'.name = "initialize"
            => /\ op'.calls \in InitializeOrders
               /\ ("notifications/initialized" \in SeqToSet(op'.calls) => op'.ret # None)
               /\ (pc' = "idle" /\ op'.err = "none")
                     => op'.calls[Len(op'.calls)] = "notifications/initialized"
       /\ NotificationsIn(stdin') > NotificationsIn(stdin)
            => /\ pc = "waiting"
               /\ op.calls[Len(op.calls)] = "initialize"
               /\ ParseRead(stdout).err = "none"
               /\ ParseRead(stdout).resp.kind = "result"
               /\ NotificationsIn(stdin') = NotificationsIn(stdin) + 1
               /\ op'.err = "none"
       /\ (op.name = "initialize" /\ pc = "waiting" /\ pc' = "idle" /\ op'.err = "none")
            => NotificationsIn(stdin') = NotificationsIn(stdin) + 1]_vars

C35_Witness ==
    /\ op.name = "initialize"
    /\ pc = "idle"
    /\ op.err = "none"
    /\ op.calls = <<"connect", "initialize", "notifications/initialized">>
    /\ NotificationsIn(stdin) = 1

\* C38: once Stdio.close() was left, returned or raised, with the handle
\* dropped, the child process the transport had spawned has exited.
C38_NoRunningChildLeft ==
    (op.name = "close" /\ process = None /\ op.outcome # "no_process")
    => op.child = "exited"

====
